---- MODULE Spec2Model ----
(***************************************************************************)
(* A model of the TEX texture plug-ins for GIMP 2 and GIMP 3:              *)
(*   src/GIMP_2_TEX_Plugin/gimp_tex_plugin.py      (plugin = "GIMP2")      *)
(*   src/GIMP_3_TEX_Plugin/gimp_tex_plugin_3.py    (plugin = "GIMP3")      *)
(* src/gimp_tex_plugin_3.py holds the same TEX class as the GIMP 3 file.   *)
(*                                                                         *)
(* Byte strings are sequences of integers 0..255.  Python's 0-based index  *)
(* i is index i+1 here.  An exception is modelled by the name of its kind  *)
(* in the field err of a call's result ("none": the call returned).        *)
(***************************************************************************)
EXTENDS Integers, Sequences, FiniteSets, TLC

VARIABLES
    plugin,   \* which plug-in file is running
    trace,    \* the operations called so far, oldest first
    disk,     \* the bytes of the .tex file at the path in use
    tex,      \* the TEX object of the last call
    err,      \* the exception the last call raised, "none" when it returned
    orig,     \* the TEX object as it was handed to the last TEX.write
    src,      \* the RGBA8 buffer handed to the encoder: [width, height, pixels]
    pixels,   \* the bytes the last decompress_tex_to_rgba returned
    has_fast_compression,   \* the global _has_fast_compression
    chain,    \* the level sizes the loop of TEX.read computes for a header
    dxt_dll,  \* the global _dxt_dll: "None" or "loaded"
    bs,       \* a BytesStream and the outcome of the last read on it
    accel,    \* the last call of init_fast_compression or of a fast_* function
    host,     \* the last call the host made of a load or save procedure
    closer    \* the process of close_gimp_tex_error.py, its clock and the windows

\* the variables of the stream, accelerator, host and closer runs
others == <<bs, accel, host, closer>>
vars == <<plugin, trace, disk, tex, err, orig, src, pixels, has_fast_compression, chain,
          dxt_dll, bs, accel, host, closer>>

(***************************************************************************)
(* Bounds of the model.                                                    *)
(***************************************************************************)
\* Largest width and height of the files and images that are enumerated.
MaxDim == 4
\* Largest number of payload bytes of an enumerated file.
MaxPayload == 85
\* Largest width and height of a pixel buffer given to the encoders, in
\* units of 4-pixel blocks.
MaxBlocks == 2
\* Largest number of calls in one run.
MaxCalls == 3
\* Largest number of bytes of a file read through a BytesStream alone.
MaxStream == 5
\* the clock of the dialog closer stops here; times are in half seconds
MaxTime == 9

(***************************************************************************)
(* Program constants.                                                      *)
(***************************************************************************)
TEX_SIGNATURE == 5784916   \* 0x00584554, "TEX\0"
DXT1 == 10
DXT5 == 12
BGRA8 == 20

\* Python's None in an integer field of a TEX object.
None == -1
\* Python's None in the field data of a TEX object (no byte is -1).
NoData == << <<-1>> >>

Plugins == {"GIMP2", "GIMP3"}
MipFormats == {DXT1, DXT5, BGRA8}

Min(a, b) == IF a < b THEN a ELSE b
Max(a, b) == IF a > b THEN a ELSE b

RECURSIVE Pow2(_)
Pow2(n) == IF n = 0 THEN 1 ELSE 2 * Pow2(n - 1)

(***************************************************************************)
(* struct.pack / struct.unpack, little-endian.                             *)
(***************************************************************************)
\* the two bytes in big-endian order ('>H' for '<H')
pack_u16_be(v) == << (v \div 256) % 256, v % 256 >>
pack_u16(v) == << v % 256, (v \div 256) % 256 >>
pack_u32(v) == << v % 256, (v \div 256) % 256, (v \div 65536) % 256, (v \div 16777216) % 256 >>
pack_b(v) == << IF v THEN 1 ELSE 0 >>
\* f[p+1 ..] read as an unsigned integer of n bytes
unpack_u(f, p, n) == LET RECURSIVE go(_)
                         go(k) == IF k = n THEN 0 ELSE f[p + k + 1] * Pow2(8 * k) + go(k + 1)
                     IN go(0)
unpack_b(f, p) == f[p + 1] # 0

\* file.read(n) at offset p: at most n bytes, fewer at the end of the file
stream_read(f, p, n) == SubSeq(f, p + 1, Min(p + n, Len(f)))
\* file.read() / file.read(-1) at offset p: all that remains
stream_read_all(f, p) == SubSeq(f, p + 1, Len(f))

(***************************************************************************)
(* BytesStream (GIMP 2): a stream is the bytes of the file and the         *)
(* position in it; op, want, had, err and value describe the last read:    *)
(* the bytes it asked for, the bytes that were left, the exception it      *)
(* raised and what it returned.                                            *)
(***************************************************************************)
\* BytesStream.reader(path): the file opened at its start
BytesStream_reader(f) ==
    [stream |-> f, pos |-> 0, calls |-> 0, op |-> "none", want |-> 0, had |-> 0,
     err |-> "none", value |-> <<>>]
\* no stream is open
NoStream == BytesStream_reader(<<>>)

\* BytesStream.read(length): self.stream.read(length)
BytesStream_read(s, length) ==
    LET chunk == IF length < 0 THEN stream_read_all(s.stream, s.pos)
                               ELSE stream_read(s.stream, s.pos, length)
    IN [s EXCEPT !.pos = s.pos + Len(chunk), !.calls = s.calls + 1, !.op = "read",
                 !.want = length, !.had = Len(s.stream) - s.pos,
                 !.err = "none", !.value = chunk]

\* struct.unpack('<{count}X', self.stream.read(count * size)) for the
\* unsigned formats B, H, I of size 1, 2, 4
read_u(s, size, count, name) ==
    LET chunk == stream_read(s.stream, s.pos, count * size)
        t == [s EXCEPT !.pos = s.pos + Len(chunk), !.calls = s.calls + 1, !.op = name,
                       !.want = count * size, !.had = Len(s.stream) - s.pos]
    IN IF Len(chunk) # count * size
       THEN [t EXCEPT !.err = "struct.error", !.value = <<>>]
       ELSE [t EXCEPT !.err = "none",
                      !.value = [k \in 1..count |-> unpack_u(chunk, (k - 1) * size, size)]]
read_u8(s, count) == read_u(s, 1, count, "read_u8")
read_u16(s, count) == read_u(s, 2, count, "read_u16")
read_u32(s, count) == read_u(s, 4, count, "read_u32")
\* struct.unpack('<{count}?', self.stream.read(count)): 1 for True, 0 for False
read_b(s, count) ==
    LET chunk == stream_read(s.stream, s.pos, count)
        t == [s EXCEPT !.pos = s.pos + Len(chunk), !.calls = s.calls + 1, !.op = "read_b",
                       !.want = count, !.had = Len(s.stream) - s.pos]
    IN IF Len(chunk) # count
       THEN [t EXCEPT !.err = "struct.error", !.value = <<>>]
       ELSE [t EXCEPT !.err = "none",
                      !.value = [k \in 1..count |-> IF unpack_b(chunk, k - 1) THEN 1 ELSE 0]]

(***************************************************************************)
(* The mip chain of TEX.read.                                              *)
(***************************************************************************)
\* '{:032b}'.format(m): the 32 binary digits of m, most significant first
RECURSIVE binary_digits(_, _)
binary_digits(m, n) == IF n = 0 THEN <<>> ELSE Append(binary_digits(m \div 2, n - 1), m % 2)
format_032b(m) == binary_digits(m, 32)
\* len(s.split('1', 1)[0]): the number of digits before the first '1'
len_before_first_1(s) == IF \E i \in 1..Len(s) : s[i] = 1
                         THEN (CHOOSE i \in 1..Len(s) : s[i] = 1 /\ \A j \in 1..(i - 1) : s[j] = 0) - 1
                         ELSE Len(s)
mipmap_count(width, height) == 32 - len_before_first_1(format_032b(Max(width, height)))

block_size(format) == IF format = DXT1 THEN 4 ELSE IF format = DXT5 THEN 4 ELSE 1
\* every compressed format given the block of DXT1
bytes_per_block_dxt1(format) == IF format = DXT1 THEN 8 ELSE IF format = DXT5 THEN 8 ELSE 4
bytes_per_block(format) == IF format = DXT1 THEN 8 ELSE IF format = DXT5 THEN 16 ELSE 4

\* the block counts rounded down instead of up
current_size_floor(width, height, format, i) ==
    LET current_width == Max(width \div Pow2(i), 1)
        current_height == Max(height \div Pow2(i), 1)
        block_width == current_width \div block_size(format)
        block_height == current_height \div block_size(format)
    IN bytes_per_block(format) * block_width * block_height
\* current_size of the loop body, for mip index i
current_size(width, height, format, i) ==
    LET current_width == Max(width \div Pow2(i), 1)
        current_height == Max(height \div Pow2(i), 1)
        block_width == (current_width + block_size(format) - 1) \div block_size(format)
        block_height == (current_height + block_size(format) - 1) \div block_size(format)
    IN bytes_per_block(format) * block_width * block_height

\* the sizes asked for by "for i in reversed(range(mipmap_count))", in order
level_sizes(width, height, format) ==
    LET n == mipmap_count(width, height)
    IN [k \in 1..n |-> current_size(width, height, format, n - k)]

(***************************************************************************)
(* TEX objects.                                                            *)
(***************************************************************************)
\* TEX.__init__
TEX_init == [signature |-> None, width |-> None, height |-> None, format |-> None,
             unknown1 |-> None, unknown2 |-> None, mipmaps |-> FALSE, data |-> NoData]

\* only the three letters compared
bad_signature_letters(signature) == signature % 16777216 # TEX_SIGNATURE % 16777216
\* "if signature != 0x00584554"
bad_signature(signature) == signature # TEX_SIGNATURE

Raise(kind, self) == [err |-> kind, self |-> self]
Return(self) == [err |-> "none", self |-> self]

\* GIMP 2, the loop "for i in reversed(range(mipmap_count))": every chunk is
\* what bs.read(current_size) returns, short or empty at the end of the file
RECURSIVE read_mipmaps2(_, _, _)
read_mipmaps2(f, p, sizes) ==
    IF sizes = <<>> THEN <<>>
    ELSE LET data_chunk == stream_read(f, p, Head(sizes))
         IN <<data_chunk>> \o read_mipmaps2(f, p + Len(data_chunk), Tail(sizes))

\* GIMP 3, the same loop: a short chunk raises, with the chunks read before
\* it already appended to self.data
RECURSIVE read_mipmaps3(_, _, _, _)
read_mipmaps3(f, p, sizes, self) ==
    IF sizes = <<>> THEN Return(self)
    ELSE LET data_chunk == stream_read(f, p, Head(sizes))
         IN IF Len(data_chunk) < Head(sizes)
            THEN Raise("UnexpectedEndOfFile", self)
            ELSE read_mipmaps3(f, p + Len(data_chunk), Tail(sizes),
                               [self EXCEPT !.data = Append(@, data_chunk)])

\* TEX.read of the GIMP 2 plug-in on the file bytes f
TEX2_read(self, f) ==
    IF Len(f) < 4 THEN Raise("struct.error", self)
    ELSE LET s1 == [self EXCEPT !.signature = unpack_u(f, 0, 4)] IN
    IF bad_signature(s1.signature) THEN Raise("InvalidSignature", s1)
    ELSE IF Len(f) < 8 THEN Raise("struct.error", s1)
    ELSE LET s2 == [s1 EXCEPT !.width = unpack_u(f, 4, 2), !.height = unpack_u(f, 6, 2)] IN
    IF Len(f) < 11 THEN Raise("struct.error", s2)
    ELSE LET s3 == [s2 EXCEPT !.unknown1 = f[9], !.unknown2 = f[11], !.format = f[10]] IN
    IF Len(f) < 12 THEN Raise("struct.error", s3)
    ELSE LET s4 == [s3 EXCEPT !.mipmaps = unpack_b(f, 11)] IN
    IF s4.mipmaps /\ s4.format \in MipFormats
    THEN Return([s4 EXCEPT !.data = read_mipmaps2(f, 12, level_sizes(s4.width, s4.height, s4.format))])
    ELSE Return([s4 EXCEPT !.data = << stream_read_all(f, 12) >>])

\* TEX.read of the GIMP 3 plug-in on the file bytes f
TEX3_read(self, f) ==
    IF Len(f) < 4 THEN Raise("struct.error", self)
    ELSE IF bad_signature(unpack_u(f, 0, 4)) THEN Raise("InvalidSignature", self)
    ELSE IF Len(f) < 8 THEN Raise("struct.error", self)
    ELSE LET s2 == [self EXCEPT !.width = unpack_u(f, 4, 2), !.height = unpack_u(f, 6, 2)] IN
    IF Len(f) < 11 THEN Raise("struct.error", s2)
    ELSE LET s3 == [s2 EXCEPT !.format = f[10]] IN
    IF Len(f) < 12 THEN Raise("struct.error", s3)
    ELSE LET s4 == [s3 EXCEPT !.mipmaps = unpack_b(f, 11)] IN
    IF s4.mipmaps /\ s4.format \in MipFormats
    THEN read_mipmaps3(f, 12, level_sizes(s4.width, s4.height, s4.format), [s4 EXCEPT !.data = <<>>])
    ELSE LET remaining_data == stream_read_all(f, 12) IN
         IF remaining_data = <<>> THEN Raise("NoTextureData", s4)
         ELSE Return([s4 EXCEPT !.data = <<remaining_data>>])

TEX_read(p, self, f) == IF p = "GIMP2" THEN TEX2_read(self, f) ELSE TEX3_read(self, f)

RECURSIVE Concat(_)
Concat(chunks) == IF chunks = <<>> THEN <<>> ELSE Head(chunks) \o Concat(Tail(chunks))

Wrote(kind, out) == [err |-> kind, out |-> out]

\* TEX.write of the GIMP 2 plug-in: the bytes in the file when the call ends
TEX2_write(self) ==
    LET b1 == pack_u32(TEX_SIGNATURE) IN
    IF ~(self.width \in 0..65535 /\ self.height \in 0..65535) THEN Wrote("struct.error", b1)
    ELSE LET b2 == b1 \o pack_u16(self.width) \o pack_u16(self.height) IN
    IF self.format \notin 0..255 THEN Wrote("struct.error", b2)
    ELSE LET b4 == b2 \o <<1, self.format, 0>> \o pack_b(self.mipmaps) IN
    IF self.mipmaps /\ self.format \in MipFormats
    THEN IF self.data = NoData THEN Wrote("TypeError", b4)
         ELSE Wrote("none", b4 \o Concat(self.data))
    ELSE IF self.data = NoData THEN Wrote("TypeError", b4)
         ELSE IF self.data = <<>> THEN Wrote("IndexError", b4)
         ELSE Wrote("none", b4 \o self.data[1])

\* TEX.write of the GIMP 3 plug-in
TEX3_write(self) ==
    LET b1 == pack_u32(TEX_SIGNATURE) IN
    IF ~(self.width \in 0..65535 /\ self.height \in 0..65535) THEN Wrote("struct.error", b1)
    ELSE LET b2 == b1 \o pack_u16(self.width) \o pack_u16(self.height) IN
    IF self.format \notin 0..255 THEN Wrote("struct.error", b2)
    ELSE LET b4 == b2 \o <<1, self.format, 0>> \o pack_b(self.mipmaps) IN
    IF self.data = NoData THEN Wrote("TypeError", b4)
    ELSE IF self.data = <<>> THEN Wrote("IndexError", b4)
    ELSE Wrote("none", b4 \o self.data[1])

TEX_write(p, self) == IF p = "GIMP2" THEN TEX2_write(self) ELSE TEX3_write(self)

(***************************************************************************)
(* Block codecs.  Python's x >> n is x \div 2^n, x & (2^n - 1) is          *)
(* x % 2^n, and the | of bit fields that do not overlap is their sum.      *)
(***************************************************************************)
\* "Convert 565 RGB to 888 RGB": the three channels of a raw 16-bit colour
rgb565_to_888(color) == << ((color \div 2048) % 32) * 8, ((color \div 32) % 64) * 4, (color % 32) * 8 >>

\* rgb888_to_565
rgb888_to_565(r, g, b) == ((r \div 8) * 2048) + ((g \div 4) * 32) + (b \div 8)

\* the six interpolated alphas taken whatever the order of the endpoints
alphas_of_six(alpha0, alpha1) ==
    <<alpha0, alpha1>> \o [i \in 1..6 |-> ((7 - i) * alpha0 + i * alpha1) \div 7]
\* decompress_dxt5_block, "Calculate alpha palette"
alphas_of(alpha0, alpha1) ==
    IF alpha0 > alpha1
    THEN <<alpha0, alpha1>> \o [i \in 1..6 |-> ((7 - i) * alpha0 + i * alpha1) \div 7]
    ELSE <<alpha0, alpha1>> \o [i \in 1..4 |-> ((5 - i) * alpha0 + i * alpha1) \div 5] \o <<0, 255>>

\* compress_dxt5_block, alpha_palette
alpha_palette(alpha0, alpha1) ==
    IF alpha0 > alpha1
    THEN <<alpha0, alpha1>> \o [i \in 1..6 |-> ((7 - i) * alpha0 + i * alpha1) \div 7]
    ELSE <<alpha0, alpha1>> \o [i \in 1..4 |-> ((5 - i) * alpha0 + i * alpha1) \div 5] \o <<0, 255>>

\* decompress_dxt5_block, "Interpolate colors"
colors_of(color0, color1) ==
    LET c0 == rgb565_to_888(color0)
        c1 == rgb565_to_888(color1)
    IN << c0, c1,
          [k \in 1..3 |-> (c0[k] * 2 + c1[k]) \div 3],
          [k \in 1..3 |-> (c0[k] + c1[k] * 2) \div 3] >>

\* compress_dxt5_block, color_palette
color_palette(color0, color1) ==
    LET c0 == rgb565_to_888(color0)
        c1 == rgb565_to_888(color1)
    IN << c0, c1,
          [k \in 1..3 |-> (c0[k] * 2 + c1[k]) \div 3],
          [k \in 1..3 |-> (c0[k] + c1[k] * 2) \div 3] >>

\* the four-colour palette taken for equal endpoints too (>= for >)
dxt1_colors_ge(color0, color1) ==
    LET c0 == rgb565_to_888(color0)
        c1 == rgb565_to_888(color1)
    IN << c0 \o <<255>>, c1 \o <<255>>,
          IF color0 >= color1 THEN [k \in 1..3 |-> (c0[k] * 2 + c1[k]) \div 3] \o <<255>>
                              ELSE [k \in 1..3 |-> (c0[k] + c1[k]) \div 2] \o <<255>>,
          IF color0 >= color1 THEN [k \in 1..3 |-> (c0[k] + c1[k] * 2) \div 3] \o <<255>>
                              ELSE <<0, 0, 0, 0>> >>
\* the fourth entry of the three-colour palette left opaque
dxt1_colors_opaque(color0, color1) ==
    LET c0 == rgb565_to_888(color0)
        c1 == rgb565_to_888(color1)
    IN << c0 \o <<255>>, c1 \o <<255>>,
          IF color0 > color1 THEN [k \in 1..3 |-> (c0[k] * 2 + c1[k]) \div 3] \o <<255>>
                             ELSE [k \in 1..3 |-> (c0[k] + c1[k]) \div 2] \o <<255>>,
          IF color0 > color1 THEN [k \in 1..3 |-> (c0[k] + c1[k] * 2) \div 3] \o <<255>>
                             ELSE <<0, 0, 0, 255>> >>
\* decompress_dxt1_block, "Interpolate colors"
dxt1_colors(color0, color1) ==
    LET c0 == rgb565_to_888(color0)
        c1 == rgb565_to_888(color1)
    IN << c0 \o <<255>>, c1 \o <<255>>,
          IF color0 > color1 THEN [k \in 1..3 |-> (c0[k] * 2 + c1[k]) \div 3] \o <<255>>
                             ELSE [k \in 1..3 |-> (c0[k] + c1[k]) \div 2] \o <<255>>,
          IF color0 > color1 THEN [k \in 1..3 |-> (c0[k] + c1[k] * 2) \div 3] \o <<255>>
                             ELSE <<0, 0, 0, 0>> >>

\* (bits >> (idx * 2)) & 3, where bits is the little-endian u32 at offset p
\* of block_data: bit pair idx lies in byte idx // 4 of the four (the u32 is
\* not formed, it can exceed the model checker's 32-bit signed integers)
index_bits2(block_data, p, idx) == (block_data[p + (idx \div 4) + 1] \div Pow2((idx % 4) * 2)) % 4

\* "Decode pixels": the buffer after the 4x4 loop has stored, for every
\* position (px, py) of the tile at (x, y) with x + px < width and
\* y + py < height, the four bytes rgba(py * 4 + px) at pixel_idx
store_tile(rgba, x, y, width, height, buf) ==
    [q \in 1..Len(buf) |->
        LET pix == (q - 1) \div 4
            X == pix % width
            Y == pix \div width
        IN IF X >= x /\ X < x + 4 /\ Y >= y /\ Y < y + 4 /\ X < width /\ Y < height
           THEN rgba[(Y - y) * 4 + (X - x)][((q - 1) % 4) + 1]
           ELSE buf[q]]

\* decompress_dxt1_block
decompress_dxt1_block(block_data, x, y, width, height, buf) ==
    IF Len(block_data) < 8 THEN buf
    ELSE LET color0 == unpack_u(block_data, 0, 2)
             color1 == unpack_u(block_data, 2, 2)
             colors == dxt1_colors(color0, color1)
             rgba == [idx \in 0..15 |-> colors[index_bits2(block_data, 4, idx) + 1]]
         IN store_tile(rgba, x, y, width, height, buf)

\* decompress_dxt5_block
decompress_dxt5_block(block_data, x, y, width, height, buf) ==
    IF Len(block_data) < 16 THEN buf
    ELSE LET alphas == alphas_of(block_data[1], block_data[2])
             alpha_lo == unpack_u(block_data, 2, 3)
             alpha_hi == unpack_u(block_data, 5, 3)
             colors == colors_of(unpack_u(block_data, 8, 2), unpack_u(block_data, 10, 2))
             \* (alpha_bits >> (idx * 3)) & 7 of the 48-bit stream, taken from its
             \* low or high 24 bits (8 pixels each) to stay within 32-bit integers
             alpha_idx(idx) == IF idx < 8 THEN (alpha_lo \div Pow2(idx * 3)) % 8
                                          ELSE (alpha_hi \div Pow2((idx - 8) * 3)) % 8
             rgba == [idx \in 0..15 |-> colors[index_bits2(block_data, 12, idx) + 1] \o <<alphas[alpha_idx(idx) + 1]>>]
         IN store_tile(rgba, x, y, width, height, buf)

(***************************************************************************)
(* decompress_tex_to_rgba.                                                 *)
(***************************************************************************)
Pixels(kind, out) == [err |-> kind, out |-> out]

\* bytearray(n)
bytearray(n) == [q \in 1..n |-> 0]

\* the BGRA8 branch: every complete group of four bytes of data is stored
\* with bytes 0 and 2 exchanged; a group past the end of pixels raises
decompress_bgra8(data, width, height) ==
    LET n == width * height * 4 IN
    IF Len(data) >= n + 4 THEN Pixels("IndexError", <<>>)
    ELSE Pixels("none", [q \in 1..n |->
            LET i == ((q - 1) \div 4) * 4
                c == (q - 1) % 4
            IN IF i + 3 < Len(data)
               THEN (IF c = 0 THEN data[i + 3] ELSE IF c = 2 THEN data[i + 1] ELSE data[q])
               ELSE 0])

\* "Fallback to Python": the loops over by and bx, from block n on, in
\* row-major order; a block that is not whole in data is skipped
RECURSIVE decompress_blocks(_, _, _, _, _, _)
decompress_blocks(format, data, width, height, n, buf) ==
    LET bsize == IF format = DXT1 THEN 8 ELSE 16
        block_width == (width + 3) \div 4
        block_height == (height + 3) \div 4
        block_idx == n * bsize
        block_data == SubSeq(data, block_idx + 1, block_idx + bsize)
        bx == n % block_width
        by == n \div block_width
    IN IF n >= block_width * block_height THEN buf
       ELSE decompress_blocks(format, data, width, height, n + 1,
              IF block_idx + bsize <= Len(data)
              THEN (IF format = DXT1
                    THEN decompress_dxt1_block(block_data, bx * 4, by * 4, width, height, buf)
                    ELSE decompress_dxt5_block(block_data, bx * 4, by * 4, width, height, buf))
              ELSE buf)

\* what dxt_compress.dll's decompress_dxt1 / decompress_dxt5 leave in the
\* output buffer: the library is not part of the sources; its contract is to
\* produce the output of the Python path
dll_decompress(format, data, width, height) ==
    decompress_blocks(format, data, width, height, 0, bytearray(width * height * 4))

\* fast_decompress_dxt1 / fast_decompress_dxt5: <<>> stands for None;
\* fast is the flag after init_fast_compression, callok whether the ctypes
\* call went through without an exception
fast_decompress(format, data, width, height, fast, callok) ==
    IF fast /\ callok THEN dll_decompress(format, data, width, height) ELSE <<>>

\* an all-zero buffer returned for a format that has no decoder
unsupported_format_blank(format, width, height) == Pixels("none", bytearray(width * height * 4))
\* the last branch: raise Exception('Unsupported texture format: ...')
unsupported_format(format, width, height) == Pixels("UnsupportedFormat", <<>>)

\* decompress_tex_to_rgba
decompress_tex_to_rgba(t, fast, callok) ==
    IF t.data = NoData THEN Pixels("TypeError", <<>>)
    ELSE IF t.data = <<>> THEN Pixels("IndexError", <<>>)
    ELSE LET width == t.width
             height == t.height
             data == IF t.mipmaps /\ Len(t.data) > 0 THEN t.data[Len(t.data)] ELSE t.data[1]
         IN IF t.format = BGRA8 THEN decompress_bgra8(data, width, height)
            ELSE IF t.format \in {DXT1, DXT5}
            THEN LET fast_result == fast_decompress(t.format, data, width, height, fast, callok)
                 IN IF fast_result # <<>> THEN Pixels("none", fast_result)
                    ELSE Pixels("none", decompress_blocks(t.format, data, width, height, 0,
                                                          bytearray(width * height * 4)))
            ELSE unsupported_format(t.format, width, height)

\* what os.path.exists and ctypes find at dll_path: no file, a file
\* ctypes.CDLL cannot load, a library that lacks one of the functions whose
\* signature is set up, a library that has them all
DllFiles == {"absent", "unloadable", "incomplete", "complete"}

Globals(dll, has, ret) == [dxt_dll |-> dll, has |-> has, ret |-> ret]

\* the flag set as soon as the file is found, before ctypes.CDLL loads it
init_fast_compression_eager(dll, has, file) ==
    IF has THEN Globals(dll, TRUE, TRUE)
    ELSE IF file = "absent" THEN Globals(dll, FALSE, FALSE)
    ELSE IF file = "unloadable" THEN Globals(dll, TRUE, FALSE)
    ELSE IF file = "incomplete" THEN Globals("loaded", TRUE, FALSE)
    ELSE Globals("loaded", TRUE, TRUE)
\* init_fast_compression: the globals _dxt_dll and _has_fast_compression
\* afterwards, and the value returned
init_fast_compression(dll, has, file) ==
    IF has THEN Globals(dll, TRUE, TRUE)
    ELSE IF file = "absent" THEN Globals(dll, FALSE, FALSE)
    ELSE IF file = "unloadable" THEN Globals(dll, FALSE, FALSE)
    ELSE IF file = "incomplete" THEN Globals("loaded", FALSE, FALSE)
    ELSE Globals("loaded", TRUE, TRUE)

\* the first lines of every fast_* function:
\*   if not _has_fast_compression:
\*       if not init_fast_compression(): return None
\* ret tells whether the function goes on to its try block and _dxt_dll
fast_entry(dll, has, file) ==
    IF ~has THEN init_fast_compression(dll, has, file) ELSE Globals(dll, has, TRUE)

(***************************************************************************)
(* Encoders.                                                               *)
(***************************************************************************)
\* the four bytes of every pixel stored in the order they come
compress_rgba_to_bgra8_copy(px, width, height) ==
    LET n == width * height * 4 IN
    IF Len(px) >= n + 4 THEN Pixels("IndexError", <<>>)
    ELSE Pixels("none", [q \in 1..n |-> IF ((q - 1) \div 4) * 4 + 3 < Len(px) THEN px[q] ELSE 0])
\* compress_rgba_to_bgra8 (GIMP 2)
compress_rgba_to_bgra8(px, width, height) ==
    LET n == width * height * 4 IN
    IF Len(px) >= n + 4 THEN Pixels("IndexError", <<>>)
    ELSE Pixels("none", [q \in 1..n |->
            LET i == ((q - 1) \div 4) * 4
                c == (q - 1) % 4
            IN IF i + 3 < Len(px)
               THEN (IF c = 0 THEN px[i + 3] ELSE IF c = 2 THEN px[i + 1] ELSE px[q])
               ELSE 0])

\* export_tex (GIMP 3), "Swap R and B channels":
\* bgra[0::4], bgra[2::4] = bgra[2::4], bgra[0::4]
\* (the two extended slices differ in length when len % 4 is 1 or 2)
swap_r_and_b(pixel_data) ==
    IF Len(pixel_data) % 4 \in {1, 2} THEN Pixels("ValueError", <<>>)
    ELSE Pixels("none", [q \in 1..Len(pixel_data) |->
            LET c == (q - 1) % 4
            IN IF c = 0 THEN pixel_data[q + 2] ELSE IF c = 2 THEN pixel_data[q - 2] ELSE pixel_data[q]])

\* the positions outside the image filled with opaque white
RECURSIVE gather_block_white(_, _, _, _, _, _)
gather_block_white(px, x, y, width, height, k) ==
    IF k = 16 THEN <<>>
    ELSE LET px_x == x + (k % 4)
             px_y == y + (k \div 4)
             idx == (px_y * width + px_x) * 4
             rest == gather_block_white(px, x, y, width, height, k + 1)
         IN IF px_x < width /\ px_y < height
            THEN (IF idx + 3 < Len(px)
                  THEN << <<px[idx + 1], px[idx + 2], px[idx + 3], px[idx + 4]>> >> \o rest
                  ELSE rest)
            ELSE << <<255, 255, 255, 255>> >> \o rest
\* compress_dxt5_block, the first loop: the (r, g, b, a) entries appended to
\* block_pixels and alphas for the tile positions k = py * 4 + px, k..15
RECURSIVE gather_block(_, _, _, _, _, _)
gather_block(px, x, y, width, height, k) ==
    IF k = 16 THEN <<>>
    ELSE LET px_x == x + (k % 4)
             px_y == y + (k \div 4)
             idx == (px_y * width + px_x) * 4
             rest == gather_block(px, x, y, width, height, k + 1)
         IN IF px_x < width /\ px_y < height
            THEN (IF idx + 3 < Len(px)
                  THEN << <<px[idx + 1], px[idx + 2], px[idx + 3], px[idx + 4]>> >> \o rest
                  ELSE rest)
            ELSE << <<0, 0, 0, 0>> >> \o rest

\* the comparison turned round: the first index with the greatest diffs[i]
worst_index(diffs) ==
    (CHOOSE i \in 1..Len(diffs) : /\ \A j \in 1..Len(diffs) : diffs[i] >= diffs[j]
                                  /\ \A j \in 1..(i - 1) : diffs[j] < diffs[i]) - 1
\* the index the search loops keep: the first one with the least diffs[i]
\* (0-based, as best_idx)
best_index(diffs) ==
    (CHOOSE i \in 1..Len(diffs) : /\ \A j \in 1..Len(diffs) : diffs[i] <= diffs[j]
                                  /\ \A j \in 1..(i - 1) : diffs[j] > diffs[i]) - 1

\* min(colors, key=sum) and max(colors, key=sum): the first of the least
\* (greatest) entries; entries are (r, g, b, a), the key sums r, g, b
rgb_sum(c) == c[1] + c[2] + c[3]
first_min(colors) ==
    colors[CHOOSE i \in 1..Len(colors) : /\ \A j \in 1..Len(colors) : rgb_sum(colors[i]) <= rgb_sum(colors[j])
                                         /\ \A j \in 1..(i - 1) : rgb_sum(colors[j]) > rgb_sum(colors[i])]
\* the last of the greatest entries instead of the first
last_max(colors) ==
    colors[CHOOSE i \in 1..Len(colors) : /\ \A j \in 1..Len(colors) : rgb_sum(colors[i]) >= rgb_sum(colors[j])
                                         /\ \A j \in (i + 1)..Len(colors) : rgb_sum(colors[j]) < rgb_sum(colors[i])]
first_max(colors) ==
    colors[CHOOSE i \in 1..Len(colors) : /\ \A j \in 1..Len(colors) : rgb_sum(colors[i]) >= rgb_sum(colors[j])
                                         /\ \A j \in 1..(i - 1) : rgb_sum(colors[j]) < rgb_sum(colors[i])]

Abs(v) == IF v < 0 THEN -v ELSE v
SeqMin(s) == CHOOSE v \in {s[i] : i \in 1..Len(s)} : \A i \in 1..Len(s) : v <= s[i]
SeqMax(s) == CHOOSE v \in {s[i] : i \in 1..Len(s)} : \A i \in 1..Len(s) : v >= s[i]

\* the greater alpha first, which the decoder reads as the eight-value mode
alpha_endpoints_swapped(alphas) == <<SeqMax(alphas), SeqMin(alphas)>>
\* compress_dxt5_block: alpha0 = min(alphas), alpha1 = max(alphas)
alpha_endpoints(alphas) == <<SeqMin(alphas), SeqMax(alphas)>>

\* sum of idx[from + j] << (j * width) for j in 0..count-1
RECURSIVE pack_bits(_, _, _, _)
pack_bits(idx, from, count, width) ==
    IF count = 0 THEN 0
    ELSE idx[from] + Pow2(width) * pack_bits(idx, from + 1, count - 1, width)

\* the alpha index chosen for each entry of block (0-based palette indices)
alpha_indices(block, palette) ==
    [i \in 1..Len(block) |-> best_index([k \in 1..Len(palette) |-> Abs(block[i][4] - palette[k])])]

\* the colour index chosen for each entry of block
color_indices(block, palette) ==
    [i \in 1..Len(block) |-> best_index([k \in 1..Len(palette) |->
          (block[i][1] - palette[k][1]) * (block[i][1] - palette[k][1])
        + (block[i][2] - palette[k][2]) * (block[i][2] - palette[k][2])
        + (block[i][3] - palette[k][3]) * (block[i][3] - palette[k][3])])]

\* compress_dxt5_block: the 16 bytes of the block, or the exception raised
\* when the first loop gathered fewer than 16 entries
compress_dxt5_block(px, x, y, width, height) ==
    LET block == gather_block(px, x, y, width, height, 0) IN
    IF block = <<>> THEN Pixels("ValueError", <<>>)
    ELSE IF Len(block) < 16 THEN Pixels("IndexError", <<>>)
    ELSE LET alphas == [i \in 1..16 |-> block[i][4]]
             alpha0 == alpha_endpoints(alphas)[1]
             alpha1 == alpha_endpoints(alphas)[2]
             aidx == alpha_indices(block, alpha_palette(alpha0, alpha1))
             color0_rgb == first_min(block)
             color1_rgb == first_max(block)
             color0 == rgb888_to_565(color0_rgb[1], color0_rgb[2], color0_rgb[3])
             color1 == rgb888_to_565(color1_rgb[1], color1_rgb[2], color1_rgb[3])
             cidx == color_indices(block, color_palette(color0, color1))
             alpha_lo == pack_bits(aidx, 1, 8, 3)
             alpha_hi == pack_bits(aidx, 9, 8, 3)
         IN Pixels("none",
              << alpha0, alpha1,
                 alpha_lo % 256, (alpha_lo \div 256) % 256, (alpha_lo \div 65536) % 256,
                 alpha_hi % 256, (alpha_hi \div 256) % 256, (alpha_hi \div 65536) % 256,
                 color0 % 256, (color0 \div 256) % 256,
                 color1 % 256, (color1 \div 256) % 256,
                 pack_bits(cidx, 1, 4, 2), pack_bits(cidx, 5, 4, 2),
                 pack_bits(cidx, 9, 4, 2), pack_bits(cidx, 13, 4, 2) >>)

\* compress_rgba_to_dxt5: the blocks from block n on, in row-major order
RECURSIVE compress_blocks(_, _, _, _)
compress_blocks(px, width, height, n) ==
    LET block_width == (width + 3) \div 4
        block_height == (height + 3) \div 4
    IN IF n >= block_width * block_height THEN Pixels("none", <<>>)
       ELSE LET b == compress_dxt5_block(px, (n % block_width) * 4, (n \div block_width) * 4, width, height)
            IN IF b.err # "none" THEN b
               ELSE LET rest == compress_blocks(px, width, height, n + 1)
                    IN IF rest.err # "none" THEN rest ELSE Pixels("none", b.out \o rest.out)

compress_rgba_to_dxt5(px, width, height) == compress_blocks(px, width, height, 0)

\* compress_dxt5 of dxt_compress.dll, whose source is not in the repository:
\* taken to encode as section 4.4 of the specification says, which is what
\* the Python encoder does
dll_compress(px, width, height) == compress_rgba_to_dxt5(px, width, height).out

\* fast_compress_dxt5 past its first lines: <<>> stands for None; entered is
\* what fast_entry returned, callok whether the try block went through
fast_compress_dxt5(px, width, height, entered, callok) ==
    IF entered /\ callok THEN dll_compress(px, width, height) ELSE <<>>

(***************************************************************************)
(* The procedures the host calls.  A call's outcome is a record: status    *)
(* is what the host gets back; opened tells whether TEX().read was called; *)
(* signal whether the TEX-load signal file was written; encoder how often  *)
(* the DXT5 encoder was called and which; wrote whether TEX.write was      *)
(* called, out the bytes then in the file; image the pixels handed to the  *)
(* host.                                                                   *)
(***************************************************************************)
Outcome(status, g) ==
    [status |-> status, opened |-> FALSE, signal |-> FALSE, image |-> <<>>,
     encoder |-> <<>>, first |-> <<>>, second |-> <<>>, format |-> None, payload |-> <<>>,
     wrote |-> FALSE, out |-> <<>>, globals |-> g]

\* tex = TEX(), then width, height, format, mipmaps = False and
\* data = [compressed_data] assigned, as export_tex and tex_save do
TEX_of(w, h, format, compressed_data) ==
    [TEX_init EXCEPT !.width = w, !.height = h, !.format = format, !.mipmaps = FALSE,
                     !.data = <<compressed_data>>]

\* the signal written on every path that went past the file-chooser
\* preview, as from a finally clause
load_signal_always(stage, signalok) == stage \in {"read", "decompress", "host", "return"} /\ signalok
\* load_tex, "Signal to error closer that TEX was successfully loaded":
\* the only open(signal_file, 'w') stands between the building of the
\* return values and the return; signalok is whether it went through
load_signal(stage, signalok) == stage = "return" /\ signalok

\* TexPlugin.load_tex (GIMP 3). present: a file object was given; f: the
\* bytes at its path; hostok: the calls of Gimp and Gegl went through
load_tex(present, run_mode, f, dll, has, file, callok, hostok, signalok) ==
    LET g0 == Globals(dll, has, has) IN
    IF ~present THEN [Outcome("CALLING_ERROR", g0) EXCEPT !.signal = load_signal("no file", signalok)]
    ELSE IF run_mode = "NONINTERACTIVE"
    THEN [Outcome("CANCEL", g0) EXCEPT !.signal = load_signal("preview", signalok)]
    ELSE LET r == TEX3_read(TEX_init, f) IN
    IF r.err # "none"
    THEN [Outcome("EXECUTION_ERROR", g0) EXCEPT !.opened = TRUE, !.signal = load_signal("read", signalok)]
    ELSE LET g == IF r.self.format \in {DXT1, DXT5} THEN fast_entry(dll, has, file) ELSE g0
             d == decompress_tex_to_rgba(r.self, g.has, callok)
         IN
    IF d.err # "none"
    THEN [Outcome("EXECUTION_ERROR", g) EXCEPT !.opened = TRUE,
                                              !.signal = load_signal("decompress", signalok)]
    ELSE IF ~hostok
    THEN [Outcome("EXECUTION_ERROR", g) EXCEPT !.opened = TRUE, !.signal = load_signal("host", signalok)]
    ELSE [Outcome("SUCCESS", g) EXCEPT !.opened = TRUE, !.image = d.out,
                                      !.signal = load_signal("return", signalok)]

\* the member of a set of one: Only({e(v) : v \in {x}}) is e(x) with x
\* computed once
Only(S) == CHOOSE v \in S : TRUE

\* export_tex from "Compress to DXT5 or BGRA8" on: first and second are what
\* the two calls of fast_compress_dxt5 returned
export_tex_write(px, w, h, g1, first, g2, second, hostfail) ==
    LET bgra == swap_r_and_b(px) IN
    IF first = <<>> /\ bgra.err # "none"
    THEN [Outcome("EXECUTION_ERROR", g1) EXCEPT !.encoder = <<"dll">>, !.first = first]
    ELSE LET compressed_data == IF first # <<>> THEN first ELSE bgra.out
             t == TEX_of(w, h, IF second # <<>> THEN DXT5 ELSE BGRA8, compressed_data)
             r == TEX3_write(t)
             o == [Outcome("SUCCESS", g2) EXCEPT !.encoder = <<"dll", "dll">>, !.first = first,
                                                !.second = second, !.format = t.format,
                                                !.payload = compressed_data,
                                                !.wrote = TRUE, !.out = r.out]
         IN IF r.err # "none" \/ hostfail = "after" THEN [o EXCEPT !.status = "EXECUTION_ERROR"]
            ELSE o

\* TexPlugin.export_tex (GIMP 3) of the merged image px of w by h pixels.
\* file1, callok1 and file2, callok2: what the two calls of
\* fast_compress_dxt5 find; hostfail: where a call of Gimp or Gegl raises
export_tex(present, px, w, h, dll, has, file1, callok1, file2, callok2, hostfail) ==
    LET g0 == Globals(dll, has, has) IN
    IF ~present THEN Outcome("CALLING_ERROR", g0)
    ELSE IF hostfail = "before" THEN Outcome("EXECUTION_ERROR", g0)
    ELSE IF w % 4 # 0 \/ h % 4 # 0 THEN Outcome("EXECUTION_ERROR", g0)
    ELSE LET g1 == fast_entry(dll, has, file1)
             g2 == fast_entry(g1.dxt_dll, g1.has, file2)
         IN Only({export_tex_write(px, w, h, g1, first, g2, second, hostfail) :
                     first \in {fast_compress_dxt5(px, w, h, g1.ret, callok1)},
                     second \in {fast_compress_dxt5(px, w, h, g2.ret, callok2)}})

\* TexPlugin.export_tex of src/gimp_tex_plugin_3.py: always BGRA8
export_tex_bgra8(present, px, w, h, dll, has, hostfail) ==
    LET g0 == Globals(dll, has, has) IN
    IF ~present THEN Outcome("CALLING_ERROR", g0)
    ELSE IF hostfail = "before" THEN Outcome("EXECUTION_ERROR", g0)
    ELSE IF Len(px) % 4 # 0 THEN Outcome("EXECUTION_ERROR", g0)
    ELSE LET t == TEX_of(w, h, BGRA8, swap_r_and_b(px).out)
             r == TEX3_write(t)
             o == [Outcome("SUCCESS", g0) EXCEPT !.format = BGRA8, !.payload = t.data[1],
                                                !.wrote = TRUE, !.out = r.out]
         IN IF r.err # "none" \/ hostfail = "after" THEN [o EXCEPT !.status = "EXECUTION_ERROR"]
            ELSE o

\* tex_save from "Create TEX file" on: compressed is what the encoders gave
tex_save_write(w, h, g, first, compressed) ==
    LET enc == IF first # <<>> THEN <<"dll">> ELSE <<"dll", "python">> IN
    IF compressed.err # "none" THEN [Outcome("raised", g) EXCEPT !.encoder = enc, !.first = first]
    ELSE LET t == TEX_of(w, h, DXT5, compressed.out)
             r == TEX2_write(t)
             o == [Outcome("returned", g) EXCEPT !.encoder = enc, !.first = first, !.format = DXT5,
                                                 !.payload = compressed.out, !.wrote = TRUE,
                                                 !.out = r.out]
         IN IF r.err # "none" THEN [o EXCEPT !.status = "raised"] ELSE o

\* tex_save (GIMP 2) of a drawable of w by h pixels whose pixel region holds
\* px; the status is "returned", or "raised" when the exception is raised
\* again to the host
tex_save(px, w, h, dll, has, file, callok, hostfail) ==
    LET g0 == Globals(dll, has, has) IN
    IF hostfail = "before" THEN Outcome("raised", g0)
    ELSE LET expected_size == w * h * 4
             rgba_data == IF Len(px) < expected_size
                          THEN px \o [q \in 1..(expected_size - Len(px)) |-> 0] ELSE px
             g == fast_entry(dll, has, file)
         IN Only({Only({tex_save_write(w, h, g, first, compressed) :
                           compressed \in {IF first # <<>> THEN Pixels("none", first)
                                           ELSE compress_rgba_to_dxt5(rgba_data, w, h)}}) :
                     first \in {fast_compress_dxt5(rgba_data, w, h, g.ret, callok)}})

(***************************************************************************)
(* The mip chain as the specification words it (section 4.3), used to lay  *)
(* out the images given to TEX.write and to state the claims.              *)
(***************************************************************************)
RECURSIVE FloorLog2(_)
FloorLog2(n) == IF n < 2 THEN 0 ELSE 1 + FloorLog2(n \div 2)
CeilDiv(a, b) == IF a % b = 0 THEN a \div b ELSE (a \div b) + 1
RECURSIVE ShiftRight(_, _)
ShiftRight(v, i) == IF i = 0 THEN v ELSE ShiftRight(v \div 2, i - 1)
BlockEdge(format) == CASE format = DXT1 -> 4 [] format = DXT5 -> 4 [] format = BGRA8 -> 1
BlockBytes(format) == CASE format = DXT1 -> 8 [] format = DXT5 -> 16 [] format = BGRA8 -> 4
MipCount(width, height) == FloorLog2(Max(width, height)) + 1
LevelSize(width, height, format, i) ==
    BlockBytes(format) * CeilDiv(Max(ShiftRight(width, i), 1), BlockEdge(format))
                       * CeilDiv(Max(ShiftRight(height, i), 1), BlockEdge(format))
\* the sizes in the container's order, smallest level first
ChainSizes(width, height, format) ==
    [k \in 1..MipCount(width, height) |-> LevelSize(width, height, format, MipCount(width, height) - k)]
RECURSIVE SeqSum(_)
SeqSum(s) == IF s = <<>> THEN 0 ELSE Head(s) + SeqSum(Tail(s))

(***************************************************************************)
(* The inputs that are enumerated.                                         *)
(***************************************************************************)
Formats == {0, 1, DXT1, DXT5, BGRA8, 255}
SmallDims == {<<w, h>> : w \in 0..MaxDim, h \in 0..MaxDim}
WideDims == {<<255, 1>>, <<256, 2>>, <<1, 300>>, <<65535, 1>>}

Header(sig, w, h, u1, format, u2, m) ==
    pack_u32(sig) \o pack_u16(w) \o pack_u16(h) \o <<u1, format, u2, m>>
Payload(n) == [j \in 1..n |-> (j * 37) % 256]

\* the payload lengths tried for a header: none, one byte, MaxPayload, and
\* those within one byte of the end of a level of the chain
RECURSIVE PartialSums(_)
PartialSums(s) == IF s = <<>> THEN {} ELSE {SeqSum(s)} \cup PartialSums(SubSeq(s, 1, Len(s) - 1))
PayloadLengths(w, h, format) ==
    {n \in 0..MaxPayload :
        \/ n \in {0, 1, MaxPayload}
        \/ /\ format \in MipFormats
           /\ \E t \in PartialSums(ChainSizes(w, h, format)) : n \in (t - 1)..(t + 1)}
\* well-formed headers
RegularFiles ==
    UNION {{Header(TEX_SIGNATURE, d[1], d[2], 1, fm, 0, m) \o Payload(n) :
               n \in PayloadLengths(d[1], d[2], fm)} :
           d \in SmallDims, fm \in Formats, m \in {0, 1}}
\* large dimensions, other values in the reserved bytes and the mipmaps byte
OddFiles ==
    {Header(TEX_SIGNATURE, d[1], d[2], u[1], fm, u[2], m) \o Payload(n) :
        d \in WideDims \cup {<<4, 4>>}, u \in {<<1, 0>>, <<0, 7>>}, fm \in {1, DXT5, BGRA8},
        m \in {0, 1, 2, 255}, n \in {0, 1, 16, MaxPayload}}
\* signatures other than "TEX\0" (below 2^31), cut at every length from 4 on
BadSignatures == {0, TEX_SIGNATURE + 1, TEX_SIGNATURE + 256, TEX_SIGNATURE + 16777216, 1480938496}
BadSignatureFiles ==
    {SubSeq(Header(sg, 4, 4, 1, fm, 0, m) \o Payload(16), 1, n) :
        sg \in BadSignatures, fm \in {DXT5, 1}, m \in {0, 1}, n \in 4..28}
\* files that end inside the header
ShortFiles ==
    {SubSeq(Header(TEX_SIGNATURE, 4, 4, 1, fm, 0, 1), 1, n) : fm \in {DXT5, 1}, n \in 0..11}
Files == RegularFiles \cup OddFiles \cup BadSignatureFiles \cup ShortFiles

\* an application's TEX object: TEX() and then the five fields assigned
Image(w, h, format, m, data) ==
    [TEX_init EXCEPT !.width = w, !.height = h, !.format = format, !.mipmaps = m, !.data = data]
Level(k, n) == [j \in 1..n |-> (k * 16 + j) % 256]
ChainData(w, h, format) ==
    LET sizes == ChainSizes(w, h, format) IN [k \in 1..Len(sizes) |-> Level(k, sizes[k])]

ImageDims == {<<w, h>> : w \in 1..MaxDim, h \in 1..MaxDim} \cup (WideDims \ {<<65535, 1>>})
\* images that keep the data model: a mip chain, or one level
MipImages == {Image(d[1], d[2], fm, TRUE, ChainData(d[1], d[2], fm)) : d \in ImageDims, fm \in MipFormats}
FlatImages == {Image(d[1], d[2], fm, FALSE, <<Level(1, LevelSize(d[1], d[2], fm, 0))>>) :
                  d \in ImageDims, fm \in MipFormats}
OtherImages == {Image(d[1], d[2], fm, m, <<Level(1, n)>>) :
                  d \in ImageDims \cup WideDims, fm \in Formats \ MipFormats, m \in BOOLEAN, n \in {1, 7}}
\* objects TEX.write cannot serialise
BrokenImages == {TEX_init,
                 Image(4, 4, DXT5, FALSE, <<>>),
                 Image(4, 4, DXT5, TRUE, NoData),
                 Image(65536, 4, DXT5, FALSE, <<Level(1, 16)>>),
                 Image(4, 4, 256, FALSE, <<Level(1, 16)>>)}
\* compressed blocks: endpoint pairs in both orders and equal, with index
\* bytes that use every index
EndpointPairs == << <<0, 65535>>, <<65535, 0>>, <<4660, 4660>>, <<63488, 2016>>,
                    <<2016, 63488>>, <<4660, 33808>>, <<33808, 4660>>, <<0, 0>> >>
IndexBytes == << <<255, 255, 255, 255>>, <<27, 228, 85, 170>>, <<57, 108, 198, 147>> >>
DXT1Blocks == {pack_u16(EndpointPairs[e][1]) \o pack_u16(EndpointPairs[e][2]) \o IndexBytes[i] :
                  e \in 1..Len(EndpointPairs), i \in 1..Len(IndexBytes)}
AlphaPairs == << <<255, 0>>, <<0, 255>>, <<128, 128>>, <<200, 13>>, <<13, 200>> >>
AlphaBytes == << <<136, 198, 250, 136, 198, 250>>, <<37, 74, 111, 148, 185, 222>> >>
DXT5Blocks == {<<AlphaPairs[a][1], AlphaPairs[a][2]>> \o AlphaBytes[b] \o c :
                  a \in 1..Len(AlphaPairs), b \in 1..Len(AlphaBytes),
                  c \in {d \in DXT1Blocks : d[5] # 255}}
\* the data of n blocks: the block, then the block with its halves of index
\* bytes exchanged, and so on in turn
Turned(b) == IF Len(b) = 8 THEN SubSeq(b, 1, 4) \o <<b[7], b[8], b[5], b[6]>>
             ELSE SubSeq(b, 1, 2) \o SubSeq(b, 6, 8) \o SubSeq(b, 3, 5) \o SubSeq(b, 9, 12)
                   \o <<b[15], b[16], b[13], b[14]>>
RECURSIVE BlockData(_, _)
BlockData(b, n) == IF n = 0 THEN <<>> ELSE b \o BlockData(Turned(b), n - 1)
\* sizes of one whole block, of one cut block, and of two and four blocks
\* cut at the right and at the bottom
BlockDims == {<<4, 4>>, <<1, 1>>, <<3, 2>>, <<2, 4>>, <<5, 3>>, <<6, 7>>}
BlockImages ==
    {Image(d[1], d[2], DXT1, FALSE, <<BlockData(b, ((d[1] + 3) \div 4) * ((d[2] + 3) \div 4))>>) :
        d \in BlockDims, b \in DXT1Blocks}
    \cup
    {Image(d[1], d[2], DXT5, FALSE, <<BlockData(b, ((d[1] + 3) \div 4) * ((d[2] + 3) \div 4))>>) :
        d \in BlockDims, b \in DXT5Blocks}
Images == MipImages \cup FlatImages \cup OtherImages \cup BrokenImages \cup BlockImages

\* RGBA8 source buffers: a few colours laid out in a few patterns
Colours == << <<0, 0, 0, 0>>, <<255, 255, 255, 255>>, <<255, 0, 0, 128>>,
              <<0, 255, 0, 7>>, <<7, 3, 7, 200>>, <<123, 45, 67, 89>> >>
Patterns == {"flat", "checker", "first", "tiles", "ramp", "fade"}
\* the colour of pixel (x, y)
PixelAt(pattern, a, b, x, y) ==
    CASE pattern = "flat" -> a
      [] pattern = "checker" -> IF (x + y) % 2 = 0 THEN a ELSE b
      [] pattern = "first" -> IF x = 0 /\ y = 0 THEN a ELSE b
      [] pattern = "tiles" -> IF ((x \div 4) + (y \div 4)) % 2 = 0 THEN a ELSE b
      [] pattern = "fade" -> << a[1], a[2], a[3], (a[4] + 9 * x + 21 * y) % 256 >>
      [] pattern = "ramp" -> << (a[1] + 16 * x) % 256, (a[2] + 5 * y) % 256, b[3], (b[4] + 9 * x + 21 * y) % 256 >>
Buffer(w, h, pattern, a, b) ==
    [q \in 1..(w * h * 4) |-> PixelAt(pattern, a, b, ((q - 1) \div 4) % w, ((q - 1) \div 4) \div w)[((q - 1) % 4) + 1]]
BufferDims == {<<w, h>> : w \in 1..MaxDim, h \in 1..MaxDim}
                  \cup {<<4 * i, 4 * j>> : i \in 1..MaxBlocks, j \in 1..MaxBlocks}
                  \cup {<<5, 3>>, <<6, 5>>}
ColourPairs == {c \in (1..Len(Colours)) \X (1..Len(Colours)) :
                   c[2] \in {c[1], (c[1] % Len(Colours)) + 1, ((c[1] + 2) % Len(Colours)) + 1}}
Sources == {[width |-> d[1], height |-> d[2],
             pixels |-> Buffer(d[1], d[2], pt, Colours[c[1]], Colours[c[2]])] :
               d \in BufferDims, pt \in Patterns, c \in ColourPairs}
NoSource == [width |-> 0, height |-> 0, pixels |-> <<>>]

\* headers whose chain is sized without a file behind them: sides around the
\* powers of two and at the ends of the u16 range, sizes below 2^31
ChainSides == {1, 2, 3, 4, 5, 7, 8, 9, 255, 256, 257, 1000}
ChainDims == (ChainSides \X ChainSides)
                \cup {<<65535, 1>>, <<1, 65535>>, <<65535, 4>>, <<32768, 1024>>, <<65535, 256>>}
NoChain == [width |-> 0, height |-> 0, format |-> 0, count |-> 0, sizes |-> <<>>]

(***************************************************************************)
(* The state machine: one action per call.                                 *)
(***************************************************************************)
Last(s) == IF s = <<>> THEN "start" ELSE s[Len(s)]

\* no call of the accelerator, of a host procedure, no closer process
NoAccel == [call |-> "none", calls |-> 0, arg |-> NoSource, file |-> "absent", callok |-> FALSE,
            flag_before |-> FALSE, into_dll |-> FALSE, result |-> <<>>, path |-> "none"]
NoHost == [call |-> "none", arg |-> NoSource, mode |-> "none",
           o |-> Outcome("none", Globals("None", FALSE, FALSE))]
\* the module globals of close_gimp_tex_error.py, times in half seconds
_close_cooldown == 4
_last_tex_load_time == 0
_activation_delay == 1
_deactivation_delay == 5
NoFile == -1
NoCloser == [now |-> 0, signal |-> NoFile, last |-> _last_tex_load_time, recently_closed |-> <<>>, open |-> {},
             op |-> "none", enumerated |-> FALSE, closed |-> {}, count |-> 0]

\* the globals and the objects of the codec when plug-in p has been imported
CodecStart(p) ==
    /\ plugin = p
    /\ trace = <<>>
    /\ disk = <<>>
    /\ tex = TEX_init
    /\ err = "none"
    /\ orig = TEX_init
    /\ src = NoSource
    /\ pixels = <<>>
    /\ has_fast_compression = FALSE
    /\ chain = NoChain
    /\ dxt_dll = "None"

Init ==
    /\ \E p \in Plugins : CodecStart(p)
    /\ bs = NoStream
    /\ accel = NoAccel
    /\ host = NoHost
    /\ closer = NoCloser

\* a .tex file is put at the path
PutFile ==
    /\ trace = <<>>
    /\ \E f \in Files : disk' = f
    /\ trace' = <<"put">>
    /\ UNCHANGED <<plugin, tex, err, orig, src, pixels, has_fast_compression, chain, dxt_dll, others>>

\* tex = TEX(); tex.read(path)
Read ==
    /\ Last(trace) \in {"put", "write"}
    /\ Len(trace) < MaxCalls
    /\ LET r == TEX_read(plugin, TEX_init, disk)
       IN /\ tex' = r.self
          /\ err' = r.err
    /\ trace' = Append(trace, "read")
    /\ UNCHANGED <<plugin, disk, orig, src, pixels, has_fast_compression, chain, dxt_dll, others>>

\* an application builds a TEX object
Assemble ==
    /\ trace = <<>>
    /\ \E t \in Images : tex' = t
    /\ trace' = <<"assemble">>
    /\ UNCHANGED <<plugin, disk, err, orig, src, pixels, has_fast_compression, chain, dxt_dll, others>>

\* tex.write(path)
Write ==
    /\ Last(trace) \in {"assemble", "read", "bgra8", "dxt5"}
    /\ err = "none"
    /\ Len(trace) < MaxCalls
    /\ LET r == TEX_write(plugin, tex)
       IN /\ disk' = r.out
          /\ err' = r.err
    /\ orig' = tex
    /\ trace' = Append(trace, "write")
    /\ UNCHANGED <<plugin, tex, src, pixels, has_fast_compression, chain, dxt_dll, others>>

\* the host hands over an RGBA8 buffer to save
TakePixels ==
    /\ trace = <<>>
    /\ \E s \in Sources : src' = s
    /\ trace' = <<"pixels">>
    /\ UNCHANGED <<plugin, disk, tex, err, orig, pixels, has_fast_compression, chain, dxt_dll, others>>

\* the buffer is converted to BGRA8 and put in a TEX object: GIMP 2 with
\* compress_rgba_to_bgra8, GIMP 3 as export_tex does without the library
EncodeBGRA8 ==
    /\ Last(trace) = "pixels"
    /\ LET r == IF plugin = "GIMP2"
                THEN compress_rgba_to_bgra8(src.pixels, src.width, src.height)
                ELSE swap_r_and_b(src.pixels)
       IN /\ err' = r.err
          /\ tex' = IF r.err = "none" THEN Image(src.width, src.height, BGRA8, FALSE, <<r.out>>) ELSE tex
    /\ trace' = Append(trace, "bgra8")
    /\ UNCHANGED <<plugin, disk, orig, src, pixels, has_fast_compression, chain, dxt_dll, others>>

\* the buffer is compressed by the Python encoder and put in a TEX object,
\* as tex_save does without the library (GIMP 2; GIMP 3 has no Python encoder)
EncodeDXT5 ==
    /\ Last(trace) = "pixels"
    /\ plugin = "GIMP2"
    /\ LET r == compress_rgba_to_dxt5(src.pixels, src.width, src.height)
       IN /\ err' = r.err
          /\ tex' = IF r.err = "none" THEN Image(src.width, src.height, DXT5, FALSE, <<r.out>>) ELSE tex
    /\ trace' = Append(trace, "dxt5")
    /\ UNCHANGED <<plugin, disk, orig, src, pixels, has_fast_compression, chain, dxt_dll, others>>

\* the sizing of TEX.read alone: mipmap_count and the current_size of every
\* turn of the loop, for a header with hasMipmaps set
SizeChain ==
    /\ trace = <<>>
    /\ \E d \in ChainDims, fm \in MipFormats :
          chain' = [width |-> d[1], height |-> d[2], format |-> fm,
                    count |-> mipmap_count(d[1], d[2]),
                    sizes |-> level_sizes(d[1], d[2], fm)]
    /\ trace' = <<"sizes">>
    /\ UNCHANGED <<plugin, disk, tex, err, orig, src, pixels, has_fast_compression, dxt_dll, others>>

\* decompress_tex_to_rgba(tex), for textures of at most 4 * MaxBlocks pixels
\* a side; the library may or may not be there, load and run
Decompress ==
    /\ Last(trace) \in {"assemble", "read", "bgra8", "dxt5"}
    /\ err = "none"
    /\ Len(trace) < MaxCalls
    /\ tex.width \in 0..(4 * MaxBlocks)
    /\ tex.height \in 0..(4 * MaxBlocks)
    /\ LET tried == tex.format \in {DXT1, DXT5} /\ tex.data # NoData /\ tex.data # <<>>
       IN \E file \in IF tried THEN DllFiles ELSE {"absent"} :
          LET g == IF tried THEN init_fast_compression(dxt_dll, has_fast_compression, file)
                            ELSE Globals(dxt_dll, has_fast_compression, has_fast_compression)
          IN \E callok \in IF tried /\ g.has THEN BOOLEAN ELSE {FALSE} :
             LET r == decompress_tex_to_rgba(tex, g.has, callok) IN
             /\ has_fast_compression' = g.has
             /\ dxt_dll' = g.dxt_dll
             /\ pixels' = r.out
             /\ err' = r.err
    /\ trace' = Append(trace, "decompress")
    /\ UNCHANGED <<plugin, disk, tex, orig, src, chain, others>>

Next ==
    \/ PutFile
    \/ Read
    \/ Assemble
    \/ Write
    \/ TakePixels
    \/ EncodeBGRA8
    \/ EncodeDXT5
    \/ Decompress
    \/ SizeChain

Spec == Init /\ [][Next]_vars

(***************************************************************************)
(* The reads of BytesStream on their own: a file is opened and read by     *)
(* any of the five methods, one call after another.                        *)
(***************************************************************************)
\* bytes below 128, so that a u32 of four of them stays a TLC integer
StreamBytes == {0, 1, 127}
RECURSIVE StreamsOfLen(_)
StreamsOfLen(n) == IF n = 0 THEN {<<>>}
                   ELSE {Append(f, b) : f \in StreamsOfLen(n - 1), b \in StreamBytes}
StreamFiles == UNION {StreamsOfLen(n) : n \in 0..MaxStream}

InitStream ==
    /\ CodecStart("GIMP2")
    /\ \E f \in StreamFiles : bs = BytesStream_reader(f)
    /\ accel = NoAccel
    /\ host = NoHost
    /\ closer = NoCloser

StreamRest == <<plugin, trace, disk, tex, err, orig, src, pixels, has_fast_compression,
                chain, dxt_dll, accel, host, closer>>

\* bs.read(length); length -1 asks for all that is left
ReadBytes ==
    /\ bs.calls < MaxCalls
    /\ \E length \in -1..MaxStream : bs' = BytesStream_read(bs, length)
    /\ UNCHANGED StreamRest
\* bs.read_u8(count)
ReadU8 ==
    /\ bs.calls < MaxCalls
    /\ \E count \in 1..3 : bs' = read_u8(bs, count)
    /\ UNCHANGED StreamRest
\* bs.read_u16(count)
ReadU16 ==
    /\ bs.calls < MaxCalls
    /\ \E count \in 1..2 : bs' = read_u16(bs, count)
    /\ UNCHANGED StreamRest
\* bs.read_u32()
ReadU32 ==
    /\ bs.calls < MaxCalls
    /\ bs' = read_u32(bs, 1)
    /\ UNCHANGED StreamRest
\* bs.read_b()
ReadB ==
    /\ bs.calls < MaxCalls
    /\ bs' = read_b(bs, 1)
    /\ UNCHANGED StreamRest

NextStream ==
    \/ ReadBytes
    \/ ReadU8
    \/ ReadU16
    \/ ReadU32
    \/ ReadB

SpecStream == InitStream /\ [][NextStream]_vars

(***************************************************************************)
(* The accelerator on its own: init_fast_compression, the three fast_*     *)
(* functions and decompress_tex_to_rgba called in any order, dll_path      *)
(* holding anything at each call.                                          *)
(***************************************************************************)
\* two textures and two pixel buffers of one block
AccelImages ==
    {Image(4, 4, DXT1, FALSE, <<pack_u16(63488) \o pack_u16(2016) \o IndexBytes[2]>>),
     Image(4, 4, DXT5, FALSE, <<<<200, 13>> \o AlphaBytes[1] \o pack_u16(4660) \o pack_u16(33808)
                                \o IndexBytes[2]>>)}
AccelSources ==
    {[width |-> 4, height |-> 4, pixels |-> Buffer(4, 4, "checker", Colours[3], Colours[4])],
     [width |-> 4, height |-> 4, pixels |-> Buffer(4, 4, "fade", Colours[2], Colours[2])]}

\* one call of the accelerator from the globals dll and has: the globals
\* afterwards, whether the call went into _dxt_dll, what it returned
\* (<<>> for None) and, for decompress_tex_to_rgba, the decoder that made
\* the pixels
fast_outcome(call, arg, dll, has, file, callok) ==
    IF call = "init_fast_compression"
    THEN LET g == init_fast_compression(dll, has, file)
         IN [globals |-> g, into_dll |-> FALSE, result |-> <<>>, path |-> "none"]
    ELSE LET g == fast_entry(dll, has, file) IN
         IF call = "fast_compress_dxt5"
         THEN [globals |-> g, into_dll |-> g.ret, path |-> "none",
               result |-> fast_compress_dxt5(arg.pixels, arg.width, arg.height, g.ret, callok)]
         ELSE IF call = "fast_decompress"
         THEN [globals |-> g, into_dll |-> g.ret, path |-> "none",
               result |-> fast_decompress(arg.format, arg.data[1], arg.width, arg.height, g.ret, callok)]
         ELSE LET fast_result == fast_decompress(arg.format, arg.data[1], arg.width, arg.height,
                                                 g.ret, callok)
              IN [globals |-> g, into_dll |-> g.ret,
                  path |-> IF fast_result # <<>> THEN "dll" ELSE "python",
                  result |-> decompress_tex_to_rgba(arg, g.ret, callok).out]

\* the record of a call and of its outcome o
AccelRecord(call, arg, file, callok, o) ==
    [call |-> call, calls |-> accel.calls + 1, arg |-> arg, file |-> file,
     callok |-> callok, flag_before |-> has_fast_compression,
     into_dll |-> o.into_dll, result |-> o.result, path |-> o.path]

AccelRest == <<plugin, trace, disk, tex, err, orig, src, pixels, chain, bs, host, closer>>

InitAccel ==
    /\ \E p \in Plugins : CodecStart(p)
    /\ bs = NoStream
    /\ accel = NoAccel
    /\ host = NoHost
    /\ closer = NoCloser

\* init_fast_compression()
InitFast ==
    /\ accel.calls < MaxCalls
    /\ \E file \in DllFiles :
          LET o == fast_outcome("init_fast_compression", NoSource, dxt_dll, has_fast_compression,
                                file, FALSE)
          IN /\ dxt_dll' = o.globals.dxt_dll
             /\ has_fast_compression' = o.globals.has
             /\ accel' = AccelRecord("init_fast_compression", NoSource, file, FALSE, o)
    /\ UNCHANGED AccelRest
\* fast_compress_dxt5(rgba_data, width, height)
FastCompress ==
    /\ accel.calls < MaxCalls
    /\ \E b \in AccelSources, file \in DllFiles, callok \in BOOLEAN :
          LET o == fast_outcome("fast_compress_dxt5", b, dxt_dll, has_fast_compression, file, callok)
          IN /\ dxt_dll' = o.globals.dxt_dll
             /\ has_fast_compression' = o.globals.has
             /\ accel' = AccelRecord("fast_compress_dxt5", b, file, callok, o)
    /\ UNCHANGED AccelRest
\* fast_decompress_dxt1 / fast_decompress_dxt5 (compressed_data, width, height)
FastDecompress ==
    /\ accel.calls < MaxCalls
    /\ \E t \in AccelImages, file \in DllFiles, callok \in BOOLEAN :
          LET o == fast_outcome("fast_decompress", t, dxt_dll, has_fast_compression, file, callok)
          IN /\ dxt_dll' = o.globals.dxt_dll
             /\ has_fast_compression' = o.globals.has
             /\ accel' = AccelRecord("fast_decompress", t, file, callok, o)
    /\ UNCHANGED AccelRest
\* decompress_tex_to_rgba(tex) of a DXT1 or DXT5 texture
DecodeTex ==
    /\ accel.calls < MaxCalls
    /\ \E t \in AccelImages, file \in DllFiles, callok \in BOOLEAN :
          LET o == fast_outcome("decompress_tex_to_rgba", t, dxt_dll, has_fast_compression,
                                file, callok)
          IN /\ dxt_dll' = o.globals.dxt_dll
             /\ has_fast_compression' = o.globals.has
             /\ accel' = AccelRecord("decompress_tex_to_rgba", t, file, callok, o)
    /\ UNCHANGED AccelRest

NextAccel ==
    \/ InitFast
    \/ FastCompress
    \/ FastDecompress
    \/ DecodeTex

SpecAccel == InitAccel /\ [][NextAccel]_vars

(***************************************************************************)
(* The procedures the host calls, one call after another in one process:   *)
(* load_tex and export_tex of the GIMP 3 plug-in (and export_tex as        *)
(* src/gimp_tex_plugin_3.py has it), tex_save of the GIMP 2 plug-in. The   *)
(* file a call wrote is host.o.out.                                        *)
(***************************************************************************)
\* files to load: two that decode, one cut short, one with trailing bytes,
\* one of a format that has no decoder, one with another signature
HostFiles ==
    {Header(TEX_SIGNATURE, 4, 4, 1, DXT5, 0, 0) \o <<200, 13>> \o AlphaBytes[1] \o pack_u16(4660)
         \o pack_u16(33808) \o IndexBytes[2],
     Header(TEX_SIGNATURE, 2, 1, 1, BGRA8, 0, 0) \o Payload(8),
     Header(TEX_SIGNATURE, 2, 2, 1, DXT1, 0, 1) \o Payload(15),
     Header(TEX_SIGNATURE, 1, 1, 1, BGRA8, 0, 0) \o Payload(8),
     Header(TEX_SIGNATURE, 4, 4, 1, 1, 0, 0) \o Payload(16),
     Header(TEX_SIGNATURE + 1, 4, 4, 1, DXT5, 0, 0) \o Payload(16)}
\* images to save: sides that are multiples of 4 and sides that are not
HostSources ==
    {[width |-> d[1], height |-> d[2], pixels |-> Buffer(d[1], d[2], "checker", Colours[3], Colours[4])] :
        d \in {<<4, 4>>, <<5, 3>>, <<4, 2>>}}
\* what a call of fast_* finds: no library, a library whose call goes
\* through, a library whose call raises
HostLibs == {<<"absent", FALSE>>, <<"complete", TRUE>>, <<"complete", FALSE>>}
RunModes == {"INTERACTIVE", "NONINTERACTIVE"}

InitHost ==
    /\ \E p \in Plugins : CodecStart(p)
    /\ bs = NoStream
    /\ accel = NoAccel
    /\ host = NoHost
    /\ closer = NoCloser

HostRest == <<plugin, trace, disk, tex, err, orig, src, pixels, chain, bs, accel, closer>>

\* file-tex-load of the GIMP 3 plug-in
LoadTex ==
    /\ plugin = "GIMP3"
    /\ \E present \in BOOLEAN, run_mode \in RunModes, f \in HostFiles, lib \in HostLibs,
          hostok \in BOOLEAN, signalok \in BOOLEAN :
          \E o \in {load_tex(present, run_mode, f, dxt_dll, has_fast_compression, lib[1], lib[2],
                            hostok, signalok)} :
             /\ host' = [call |-> "load_tex", arg |-> [width |-> 0, height |-> 0, pixels |-> f],
                         mode |-> run_mode, o |-> o]
             /\ dxt_dll' = o.globals.dxt_dll
             /\ has_fast_compression' = o.globals.has
    /\ UNCHANGED HostRest
\* file-tex-export of the GIMP 3 plug-in
ExportTex ==
    /\ plugin = "GIMP3"
    /\ \E present \in BOOLEAN, b \in HostSources, lib1 \in HostLibs, lib2 \in HostLibs,
          hostfail \in {"none", "before", "after"} :
          \E o \in {export_tex(present, b.pixels, b.width, b.height, dxt_dll, has_fast_compression,
                              lib1[1], lib1[2], lib2[1], lib2[2], hostfail)} :
             /\ host' = [call |-> "export_tex", arg |-> b, mode |-> "none", o |-> o]
             /\ dxt_dll' = o.globals.dxt_dll
             /\ has_fast_compression' = o.globals.has
    /\ UNCHANGED HostRest
\* file-tex-export as src/gimp_tex_plugin_3.py has it
ExportTexBGRA8 ==
    /\ plugin = "GIMP3"
    /\ \E present \in BOOLEAN, b \in HostSources, hostfail \in {"none", "before", "after"} :
          \E o \in {export_tex_bgra8(present, b.pixels, b.width, b.height, dxt_dll,
                                    has_fast_compression, hostfail)} :
             /\ host' = [call |-> "export_tex_bgra8", arg |-> b, mode |-> "none", o |-> o]
    /\ UNCHANGED <<dxt_dll, has_fast_compression>>
    /\ UNCHANGED HostRest
\* file-tex-save of the GIMP 2 plug-in
TexSave ==
    /\ plugin = "GIMP2"
    /\ \E b \in HostSources, lib \in HostLibs, hostfail \in {"none", "before"} :
          \E o \in {tex_save(b.pixels, b.width, b.height, dxt_dll, has_fast_compression,
                            lib[1], lib[2], hostfail)} :
             /\ host' = [call |-> "tex_save", arg |-> b, mode |-> "none", o |-> o]
             /\ dxt_dll' = o.globals.dxt_dll
             /\ has_fast_compression' = o.globals.has
    /\ UNCHANGED HostRest

NextHost ==
    \/ LoadTex
    \/ ExportTex
    \/ ExportTexBGRA8
    \/ TexSave

SpecHost == InitHost /\ [][NextHost]_vars

(***************************************************************************)
(* close_gimp_tex_error.py, the process that closes the message dialogs of *)
(* GIMP. Times are in half seconds: time.time() is closer.now, the mtime   *)
(* of the signal file is closer.signal (NoFile while there is none).       *)
(***************************************************************************)

\* the windows of the desktop, by handle
Windows ==
    [hwnd \in 1..3 |->
        CASE hwnd = 1 -> [title |-> "GIMP Message", class_name |-> "gdkWindowToplevel", visible |-> TRUE]
          [] hwnd = 2 -> [title |-> "GNU Image Manipulation Program", class_name |-> "gdkWindowToplevel",
                          visible |-> TRUE]
          [] hwnd = 3 -> [title |-> "GIMP Message", class_name |-> "#32770", visible |-> TRUE]]

\* check_tex_load_signal: the value of _last_tex_load_time after it; statok
\* is whether os.path.exists and os.path.getmtime went through
check_tex_load_signal(last, signal, statok) ==
    IF statok /\ signal # NoFile /\ signal > last THEN signal ELSE last

\* the gate without its lower end
is_error_closer_active_at_once(last, now) ==
    IF last = 0 THEN FALSE ELSE now - last <= _deactivation_delay
\* is_error_closer_active with time.time() = now
is_error_closer_active(last, now) ==
    IF last = 0 THEN FALSE
    ELSE LET time_since_load == now - last
         IN _activation_delay <= time_since_load /\ time_since_load <= _deactivation_delay

\* enum_callback, message_patterns: both words of a pair are in the title
is_message_dialog(title) == title \in {"GIMP Message", "Mensaje de GIMP", "GIMP-Meldung"}
\* the windows enum_callback goes on to close
to_close(open, recently_closed) ==
    {hwnd \in open : /\ Windows[hwnd].visible
                     /\ Windows[hwnd].title # ""
                     /\ is_message_dialog(Windows[hwnd].title)
                     /\ Windows[hwnd].class_name = "gdkWindowToplevel"
                     /\ hwnd \notin DOMAIN recently_closed}

\* find_and_close_gimp_tex_errors in the state c; close_window(hwnd)
\* returns False for the windows in fails
find_and_close_gimp_tex_errors(c, statok, fails) ==
    LET current_time == c.now
        last == check_tex_load_signal(c.last, c.signal, statok)
    IN IF ~is_error_closer_active(last, c.now)
       THEN [c EXCEPT !.last = last, !.op = "poll", !.enumerated = FALSE, !.closed = {}, !.count = 0]
       ELSE LET kept == {k \in DOMAIN c.recently_closed :
                            current_time - c.recently_closed[k] < _close_cooldown}
                closed == to_close(c.open, [k \in kept |-> c.recently_closed[k]]) \ fails
            IN [c EXCEPT !.last = last, !.op = "poll", !.enumerated = TRUE, !.closed = closed,
                         !.count = Cardinality(closed),
                         !.open = c.open \ closed,
                         !.recently_closed = [k \in kept \cup closed |->
                                                 IF k \in closed THEN current_time
                                                 ELSE c.recently_closed[k]]]

InitCloser ==
    /\ CodecStart("GIMP3")
    /\ bs = NoStream
    /\ accel = NoAccel
    /\ host = NoHost
    /\ \E signal \in {NoFile, 1} :
          closer = [NoCloser EXCEPT !.now = 2, !.signal = signal]

CloserRest == <<plugin, trace, disk, tex, err, orig, src, pixels, has_fast_compression, chain,
                dxt_dll, bs, accel, host>>

\* half a second passes
Tick ==
    /\ closer.now < MaxTime
    /\ closer' = [closer EXCEPT !.now = @ + 1, !.op = "tick"]
    /\ UNCHANGED CloserRest
\* load_tex writes the signal file
LoadSignal ==
    /\ closer' = [closer EXCEPT !.signal = closer.now, !.op = "signal"]
    /\ UNCHANGED CloserRest
\* a window appears on the desktop
WindowOpens ==
    /\ \E hwnd \in DOMAIN Windows \ closer.open :
          closer' = [closer EXCEPT !.open = @ \cup {hwnd}, !.op = "open"]
    /\ UNCHANGED CloserRest
\* one turn of the loop of main
Poll ==
    /\ \E statok \in BOOLEAN, fails \in SUBSET {1} :
          closer' = find_and_close_gimp_tex_errors(closer, statok, fails)
    /\ UNCHANGED CloserRest

NextCloser ==
    \/ Tick
    \/ LoadSignal
    \/ WindowOpens
    \/ Poll

SpecCloser == InitCloser /\ [][NextCloser]_vars

(***************************************************************************)
(* The container properties.  The file on disk is described by its bytes,  *)
(* the expected layout by the formulas of the format description.          *)
(***************************************************************************)
\* the call before the last one
Before(s) == IF Len(s) < 2 THEN "start" ELSE s[Len(s) - 1]

\* the header fields as the bytes of a file spell them
FileHasHeader(f) == Len(f) >= 12 /\ SubSeq(f, 1, 4) = <<84, 69, 88, 0>>
FileWidth(f) == f[5] + 256 * f[6]
FileHeight(f) == f[7] + 256 * f[8]
FileFormat(f) == f[10]
FileMipmaps(f) == f[12] # 0
FilePayload(f) == Len(f) - 12
\* a file whose header announces a mip chain of a supported format
FileHasChain(f) ==
    /\ FileHasHeader(f)
    /\ FileMipmaps(f)
    /\ FileFormat(f) \in {DXT1, DXT5, BGRA8}
    /\ FileWidth(f) >= 1
    /\ FileHeight(f) >= 1
FileChainSizes(f) == ChainSizes(FileWidth(f), FileHeight(f), FileFormat(f))

\* an image that keeps the data model: dimensions in 1..65535, a format
\* byte, and either the whole mip chain or one level that is not empty
WellFormed(t) ==
    /\ t.width \in 1..65535
    /\ t.height \in 1..65535
    /\ t.format \in 0..255
    /\ t.data # NoData
    /\ IF t.mipmaps /\ t.format \in {DXT1, DXT5, BGRA8}
       THEN [k \in 1..Len(t.data) |-> Len(t.data[k])] = ChainSizes(t.width, t.height, t.format)
       ELSE Len(t.data) = 1 /\ t.data[1] # <<>>

\* C1: writing a well-formed image and reading the file back succeeds and
\* gives the same width, height, format, mipmaps flag, number of levels and
\* length of every level
C1_RoundTrip ==
    (/\ Last(trace) = "read"
     /\ Before(trace) = "write"
     /\ WellFormed(orig))
    => /\ err = "none"
       /\ tex.width = orig.width
       /\ tex.height = orig.height
       /\ tex.format = orig.format
       /\ tex.mipmaps = orig.mipmaps
       /\ Len(tex.data) = Len(orig.data)
       /\ \A k \in 1..Len(orig.data) : Len(tex.data[k]) = Len(orig.data[k])

\* C2: when hasMipmaps is set and the format is DXT1, DXT5 or BGRA8, the
\* file written holds the 12 header bytes and then every level of the image
\* in order, 12 + the sum of the level lengths in all
C2_WriteAllLevels ==
    (/\ Last(trace) = "write"
     /\ WellFormed(orig)
     /\ orig.mipmaps
     /\ orig.format \in {DXT1, DXT5, BGRA8})
    => /\ err = "none"
       /\ Len(disk) = 12 + SeqSum([k \in 1..Len(orig.data) |-> Len(orig.data[k])])
       /\ SubSeq(disk, 13, Len(disk)) = Concat(orig.data)

\* C3: reading a file whose header announces a mip chain but whose payload
\* is shorter than the chain fails with the truncated-level error, and no
\* image with a short level is returned
C3_TruncatedFails ==
    (/\ Last(trace) = "read"
     /\ FileHasChain(disk)
     /\ FilePayload(disk) < SeqSum(FileChainSizes(disk)))
    => err = "UnexpectedEndOfFile"

\* C4: for a file that announces a mip chain (width and height in 1..65535,
\* format DXT1, DXT5 or BGRA8) and holds at least the bytes of the chain,
\* the read succeeds with floor(log2(max(width, height))) + 1 levels, and
\* the level of mip index i, stored smallest first, has
\* S * ceil(max(width >> i, 1) / B) * ceil(max(height >> i, 1) / B) bytes;
\* the sizing loop computes that count and those sizes for every header
C4_ChainLayout ==
    /\ (/\ Last(trace) = "read"
        /\ FileHasChain(disk)
        /\ FilePayload(disk) >= SeqSum(FileChainSizes(disk)))
       => /\ err = "none"
          /\ Len(tex.data) = MipCount(FileWidth(disk), FileHeight(disk))
          /\ \A k \in 1..Len(tex.data) :
               Len(tex.data[k]) = LevelSize(FileWidth(disk), FileHeight(disk), FileFormat(disk),
                                            Len(tex.data) - k)
          /\ tex.data = [k \in 1..Len(tex.data) |->
                           SubSeq(disk, 13 + SeqSum(SubSeq(FileChainSizes(disk), 1, k - 1)),
                                        12 + SeqSum(SubSeq(FileChainSizes(disk), 1, k)))]
    /\ Last(trace) = "sizes"
       => /\ chain.count = MipCount(chain.width, chain.height)
          /\ Len(chain.sizes) = chain.count
          /\ \A k \in 1..chain.count :
               chain.sizes[k] = LevelSize(chain.width, chain.height, chain.format, chain.count - k)

\* a 3 x 4 DXT5 chain of three one-block levels has been read
C4_Witness ==
    /\ Last(trace) = "read"
    /\ FileHasChain(disk)
    /\ FilePayload(disk) >= SeqSum(FileChainSizes(disk))
    /\ FileWidth(disk) = 3
    /\ FileHeight(disk) = 4
    /\ FileFormat(disk) = DXT5
    /\ err = "none"
    /\ Len(tex.data) = 3
    /\ Len(tex.data[1]) = 16

\* C5 as stated: for width 256, height 256 and DXT5 the mip count is 9 and
\* the level sizes, smallest first, are 16, 16, 64, 256, 1024, 4096, 16384,
\* 65536 and 262144 bytes
C5_StatedChain ==
    (/\ Last(trace) = "sizes"
     /\ chain.width = 256
     /\ chain.height = 256
     /\ chain.format = DXT5)
    => /\ chain.count = 9
       /\ chain.sizes = <<16, 16, 64, 256, 1024, 4096, 16384, 65536, 262144>>

\* C5 amended: for width 256, height 256 and DXT5 the mip count is 9 and the
\* level sizes, smallest first, are 16, 16, 16, 64, 256, 1024, 4096, 16384
\* and 65536 bytes (87408 in all): the 1 x 1, 2 x 2 and 4 x 4 levels are one
\* 16-byte block each and the 256 x 256 level is 64 * 64 blocks
C5_KnownChain ==
    (/\ Last(trace) = "sizes"
     /\ chain.width = 256
     /\ chain.height = 256
     /\ chain.format = DXT5)
    => /\ chain.count = 9
       /\ chain.sizes = <<16, 16, 16, 64, 256, 1024, 4096, 16384, 65536>>
       /\ SeqSum(chain.sizes) = 87408

\* the chain of the 256 x 256 DXT5 header has been sized
C5_Witness ==
    /\ trace = <<"sizes">>
    /\ chain.width = 256
    /\ chain.height = 256
    /\ chain.format = DXT5
    /\ Len(chain.sizes) = 9

C7_EmptyPayloadFails ==
    (/\ Last(trace) = "read"
     /\ FileHasHeader(disk)
     /\ FilePayload(disk) = 0
     /\ (~FileMipmaps(disk) \/ FileFormat(disk) \notin {DXT1, DXT5, BGRA8}))
    => err = "NoTextureData"

\* C8 (parsing): a file with a valid header, a format byte other than 10, 12
\* and 20 and a payload that is not empty reads without error, as one level
\* holding the payload, the format byte kept.
\* C8 (decoding): decoding an image of such a format fails with the
\* unsupported-format error and gives no pixels
C8_UnsupportedFormat ==
    /\ (/\ Last(trace) = "read"
        /\ FileHasHeader(disk)
        /\ FileFormat(disk) \notin {DXT1, DXT5, BGRA8}
        /\ FilePayload(disk) > 0)
       => /\ err = "none"
          /\ tex.format = FileFormat(disk)
          /\ tex.width = FileWidth(disk)
          /\ tex.height = FileHeight(disk)
          /\ tex.data = << SubSeq(disk, 13, Len(disk)) >>
    /\ (/\ Last(trace) = "decompress"
        /\ tex.format \notin {DXT1, DXT5, BGRA8}
        /\ tex.data # NoData
        /\ tex.data # <<>>)
       => /\ err = "UnsupportedFormat"
          /\ pixels = <<>>

\* a file of format 255 has been read and the decoder has refused it
C8_Witness ==
    /\ trace = <<"put", "read", "decompress">>
    /\ FileFormat(disk) = 255
    /\ tex.format = 255
    /\ Len(tex.data) = 1
    /\ err = "UnsupportedFormat"

(***************************************************************************)
(* The pixel round trips.                                                  *)
(***************************************************************************)
\* channel c (1..4) of pixel (x, y) in an RGBA8 buffer of the given width
Channel(buf, width, x, y, c) == buf[(y * width + x) * 4 + c]
\* the source alphas and colours of the 4 x 4 block that holds pixel (x, y)
BlockAlphas(x, y) ==
    {Channel(src.pixels, src.width, (x \div 4) * 4 + i, (y \div 4) * 4 + j, 4) : i \in 0..3, j \in 0..3}
BlockColours(x, y) ==
    {<<Channel(src.pixels, src.width, (x \div 4) * 4 + i, (y \div 4) * 4 + j, 1),
       Channel(src.pixels, src.width, (x \div 4) * 4 + i, (y \div 4) * 4 + j, 2),
       Channel(src.pixels, src.width, (x \div 4) * 4 + i, (y \div 4) * 4 + j, 3)>> : i \in 0..3, j \in 0..3}
SetMin(S) == CHOOSE v \in S : \A u \in S : v <= u
SetMax(S) == CHOOSE v \in S : \A u \in S : v >= u
\* one step of the alpha palette of a block: a fifth of the span of its
\* alphas, rounded up
AlphaStep(x, y) == CeilDiv(SetMax(BlockAlphas(x, y)) - SetMin(BlockAlphas(x, y)), 5)
Error(x, y, c) == Abs(Channel(pixels, src.width, x, y, c) - Channel(src.pixels, src.width, x, y, c))
\* a buffer of whole blocks went through the DXT5 encoder and the decoder
DXT5RoundTrip ==
    /\ trace = <<"pixels", "dxt5", "decompress">>
    /\ src.width % 4 = 0
    /\ src.height % 4 = 0

\* C9 as stated: after encoding a buffer of whole blocks as DXT5 and
\* decoding it, every R and B is less than 8 and every G less than 4 from
\* the source, and every alpha at most one palette step of its block
C9_StatedBound ==
    DXT5RoundTrip
    => /\ err = "none"
       /\ Len(pixels) = Len(src.pixels)
       /\ \A x \in 0..(src.width - 1), y \in 0..(src.height - 1) :
            /\ Error(x, y, 1) < 8
            /\ Error(x, y, 2) < 4
            /\ Error(x, y, 3) < 8
            /\ Error(x, y, 4) <= AlphaStep(x, y)

\* C9 amended: after encoding a buffer of whole blocks as DXT5 and decoding
\* it, every alpha is at most one palette step of its block from the
\* source, and in every block whose sixteen source pixels have one and the
\* same colour every R and B is less than 8 and every G less than 4 from the
\* source
C9_RoundTripBound ==
    DXT5RoundTrip
    => /\ err = "none"
       /\ Len(pixels) = Len(src.pixels)
       /\ \A x \in 0..(src.width - 1), y \in 0..(src.height - 1) :
            /\ Error(x, y, 4) <= AlphaStep(x, y)
            /\ Cardinality(BlockColours(x, y)) = 1
               => /\ Error(x, y, 1) < 8
                  /\ Error(x, y, 2) < 4
                  /\ Error(x, y, 3) < 8

\* a buffer of two blocks came back with a pixel of a one-colour block off
\* in colour and in alpha
C9_Witness ==
    /\ DXT5RoundTrip
    /\ err = "none"
    /\ src.width = 8
    /\ src.height = 4
    /\ \E x \in 0..7, y \in 0..3 :
         /\ Cardinality(BlockColours(x, y)) = 1
         /\ Error(x, y, 1) > 0
         /\ Error(x, y, 4) > 0
         /\ Error(x, y, 4) <= AlphaStep(x, y)

\* C10: converting an RGBA8 buffer of width * height * 4 bytes to BGRA8
\* exchanges bytes 0 and 2 of every pixel and keeps bytes 1 and 3, and
\* decoding the result as BGRA8 gives the source buffer byte for byte
C10_BGRA8RoundTrip ==
    trace = <<"pixels", "bgra8", "decompress">>
    => /\ err = "none"
       /\ tex.format = BGRA8
       /\ Len(tex.data[1]) = src.width * src.height * 4
       /\ \A x \in 0..(src.width - 1), y \in 0..(src.height - 1) :
            /\ Channel(tex.data[1], src.width, x, y, 1) = Channel(src.pixels, src.width, x, y, 3)
            /\ Channel(tex.data[1], src.width, x, y, 2) = Channel(src.pixels, src.width, x, y, 2)
            /\ Channel(tex.data[1], src.width, x, y, 3) = Channel(src.pixels, src.width, x, y, 1)
            /\ Channel(tex.data[1], src.width, x, y, 4) = Channel(src.pixels, src.width, x, y, 4)
       /\ pixels = src.pixels

\* a 3 x 2 buffer whose red and blue differ came back whole
C10_Witness ==
    /\ trace = <<"pixels", "bgra8", "decompress">>
    /\ src.width = 3
    /\ src.height = 2
    /\ tex.data[1] # src.pixels
    /\ pixels = src.pixels

(***************************************************************************)
(* The block codecs.  The palettes and the bit layout are written here as  *)
(* the format description states them, and compared with what the decoder  *)
(* leaves in the buffer and the encoder in the block.                      *)
(***************************************************************************)
\* a 16-bit RGB565 value expanded to 8 bits a channel
Expand565(c) == << ((c \div 2048) % 32) * 8, ((c \div 32) % 64) * 4, (c % 32) * 8 >>
\* the little-endian u16 at offset p (0-based) of a block
U16At(b, p) == b[p + 1] + 256 * b[p + 2]
\* bits (w * k) .. (w * k + w - 1) of the little-endian stream that starts at
\* offset p of a block, for a width w of 2 or 3 bits
BitAt(b, p, n) == (b[p + (n \div 8) + 1] \div Pow2(n % 8)) % 2
IndexAt(b, p, w, k) ==
    IF w = 2 THEN BitAt(b, p, 2 * k) + 2 * BitAt(b, p, 2 * k + 1)
    ELSE BitAt(b, p, 3 * k) + 2 * BitAt(b, p, 3 * k + 1) + 4 * BitAt(b, p, 3 * k + 2)
StatedDXT1Palette(c0, c1) ==
    LET e0 == Expand565(c0)
        e1 == Expand565(c1)
    IN IF c0 > c1
       THEN << e0 \o <<255>>, e1 \o <<255>>,
               [k \in 1..3 |-> (2 * e0[k] + e1[k]) \div 3] \o <<255>>,
               [k \in 1..3 |-> (e0[k] + 2 * e1[k]) \div 3] \o <<255>> >>
       ELSE << e0 \o <<255>>, e1 \o <<255>>,
               [k \in 1..3 |-> (e0[k] + e1[k]) \div 2] \o <<255>>,
               <<0, 0, 0, 0>> >>

\* an image of one level of whole blocks of bsize bytes has been decoded
BlocksAcross == (tex.width + 3) \div 4
BlocksDown == (tex.height + 3) \div 4
DecodedBlocks(format, bsize) ==
    /\ trace = <<"assemble", "decompress">>
    /\ tex.format = format
    /\ ~tex.mipmaps
    /\ tex.data # NoData
    /\ Len(tex.data) = 1
    /\ tex.width >= 1
    /\ tex.height >= 1
    /\ Len(tex.data[1]) = bsize * BlocksAcross * BlocksDown
\* the block that holds pixel (x, y), and the pixel's number in it
BlockAt(bsize, x, y) ==
    SubSeq(tex.data[1], ((y \div 4) * BlocksAcross + (x \div 4)) * bsize + 1,
                        ((y \div 4) * BlocksAcross + (x \div 4)) * bsize + bsize)
InBlock(x, y) == (y % 4) * 4 + (x % 4)
DecodedPixel(x, y) == [c \in 1..4 |-> Channel(pixels, tex.width, x, y, c)]

\* C11: decoding DXT1 blocks gives pixel k of a block the entry
\* (bits >> 2k) & 3 of the palette [c0, c1, (2*c0+c1)//3, (c0+2*c1)//3], all
\* of alpha 255, when the raw c0 > c1, and of [c0, c1, (c0+c1)//2 of alpha
\* 255, (0,0,0,0)] when c0 <= c1, the endpoints expanded from RGB565 by
\* (5 bits << 3, 6 bits << 2, 5 bits << 3)
C11_DXT1Decode ==
    DecodedBlocks(DXT1, 8)
    => /\ err = "none"
       /\ Len(pixels) = tex.width * tex.height * 4
       /\ \A x \in 0..(tex.width - 1), y \in 0..(tex.height - 1) :
            LET b == BlockAt(8, x, y)
            IN DecodedPixel(x, y) =
                 StatedDXT1Palette(U16At(b, 0), U16At(b, 2))[IndexAt(b, 4, 2, InBlock(x, y)) + 1]

\* a block of equal endpoints was decoded, with a pixel that took the
\* transparent entry and one that took an endpoint
C11_Witness ==
    /\ DecodedBlocks(DXT1, 8)
    /\ tex.width = 4
    /\ tex.height = 4
    /\ U16At(tex.data[1], 0) = 4660
    /\ U16At(tex.data[1], 2) = 4660
    /\ \E x \in 0..3, y \in 0..3 : DecodedPixel(x, y) = <<0, 0, 0, 0>>
    /\ \E x \in 0..3, y \in 0..3 : DecodedPixel(x, y) = <<16, 68, 160, 255>>

\* C12: the block 00 00 FF FF FF FF FF FF decoded as a whole 4 x 4 DXT1
\* block sets all 16 pixels to (0, 0, 0, 0)
C12_KnownBlock ==
    (/\ trace = <<"assemble", "decompress">>
     /\ tex.format = DXT1
     /\ tex.width = 4
     /\ tex.height = 4
     /\ ~tex.mipmaps
     /\ tex.data = << <<0, 0, 255, 255, 255, 255, 255, 255>> >>)
    => /\ err = "none"
       /\ pixels = [q \in 1..64 |-> 0]

\* the block 00 00 FF FF FF FF FF FF has been decoded
C12_Witness ==
    /\ trace = <<"assemble", "decompress">>
    /\ tex.format = DXT1
    /\ tex.width = 4
    /\ tex.height = 4
    /\ tex.data = << <<0, 0, 255, 255, 255, 255, 255, 255>> >>
    /\ Len(pixels) = 64

StatedAlphaPalette(a0, a1) ==
    IF a0 > a1
    THEN <<a0, a1>> \o [k \in 1..6 |-> ((7 - k) * a0 + k * a1) \div 7]
    ELSE <<a0, a1>> \o [k \in 1..4 |-> ((5 - k) * a0 + k * a1) \div 5] \o <<0, 255>>
StatedDXT5Colours(c0, c1) ==
    LET e0 == Expand565(c0)
        e1 == Expand565(c1)
    IN << e0, e1,
          [k \in 1..3 |-> (2 * e0[k] + e1[k]) \div 3],
          [k \in 1..3 |-> (e0[k] + 2 * e1[k]) \div 3] >>

\* C13: decoding DXT5 blocks gives every pixel the colour entry
\* (bits >> 2k) & 3 of [c0, c1, (2*c0+c1)//3, (c0+2*c1)//3] (bytes 8..15),
\* for both orders of c0 and c1, and the alpha entry given by 3 bits of the
\* 48-bit stream of bytes 2..7 in [a0, a1, ((7-k)*a0+k*a1)//7 for k = 1..6]
\* when a0 > a1 and [a0, a1, ((5-k)*a0+k*a1)//5 for k = 1..4, 0, 255]
\* otherwise
C13_DXT5Decode ==
    DecodedBlocks(DXT5, 16)
    => /\ err = "none"
       /\ Len(pixels) = tex.width * tex.height * 4
       /\ \A x \in 0..(tex.width - 1), y \in 0..(tex.height - 1) :
            LET b == BlockAt(16, x, y)
            IN DecodedPixel(x, y) =
                 StatedDXT5Colours(U16At(b, 8), U16At(b, 10))[IndexAt(b, 12, 2, InBlock(x, y)) + 1]
                 \o << StatedAlphaPalette(b[1], b[2])[IndexAt(b, 2, 3, InBlock(x, y)) + 1] >>

\* a block with a0 < a1 and c0 < c1 was decoded, with a pixel of the
\* sentinel alpha 255 and a pixel of the fourth colour entry
C13_Witness ==
    /\ DecodedBlocks(DXT5, 16)
    /\ tex.width = 4
    /\ tex.height = 4
    /\ tex.data[1][1] = 13
    /\ tex.data[1][2] = 200
    /\ U16At(tex.data[1], 8) < U16At(tex.data[1], 10)
    /\ \E x \in 0..3, y \in 0..3 :
         /\ IndexAt(tex.data[1], 2, 3, InBlock(x, y)) = 7
         /\ Channel(pixels, 4, x, y, 4) = 255
    /\ \E x \in 0..3, y \in 0..3 :
         /\ IndexAt(tex.data[1], 12, 2, InBlock(x, y)) = 3
         /\ Channel(pixels, 4, x, y, 2) =
              StatedDXT5Colours(U16At(tex.data[1], 8), U16At(tex.data[1], 10))[4][2]

\* r, g, b reduced to 5, 6 and 5 bits in one 16-bit value
Quant565(c) == (c[1] \div 8) * 2048 + (c[2] \div 4) * 32 + (c[3] \div 8)
\* source pixel k of the block (bx, by), in raster order
SourcePixel(bx, by, k) ==
    [c \in 1..4 |-> Channel(src.pixels, src.width, bx * 4 + (k % 4), by * 4 + (k \div 4), c)]
Sum3(c) == c[1] + c[2] + c[3]
FirstLeastSum(bx, by) ==
    SourcePixel(bx, by, CHOOSE k \in 0..15 :
        /\ \A j \in 0..15 : Sum3(SourcePixel(bx, by, k)) <= Sum3(SourcePixel(bx, by, j))
        /\ \A j \in 0..(k - 1) : Sum3(SourcePixel(bx, by, j)) > Sum3(SourcePixel(bx, by, k)))
FirstGreatestSum(bx, by) ==
    SourcePixel(bx, by, CHOOSE k \in 0..15 :
        /\ \A j \in 0..15 : Sum3(SourcePixel(bx, by, k)) >= Sum3(SourcePixel(bx, by, j))
        /\ \A j \in 0..(k - 1) : Sum3(SourcePixel(bx, by, j)) < Sum3(SourcePixel(bx, by, k)))
\* the lowest index (0-based) of a least entry of a sequence of distances
LowestNearest(d) ==
    (CHOOSE i \in 1..Len(d) : /\ \A j \in 1..Len(d) : d[i] <= d[j]
                              /\ \A j \in 1..(i - 1) : d[j] > d[i]) - 1
AlphaDistances(a, palette) == [i \in 1..8 |-> Abs(a - palette[i])]
ColourDistances(c, palette) ==
    [i \in 1..4 |-> (c[1] - palette[i][1]) * (c[1] - palette[i][1])
                    + (c[2] - palette[i][2]) * (c[2] - palette[i][2])
                    + (c[3] - palette[i][3]) * (c[3] - palette[i][3])]
\* a buffer of whole blocks has been encoded by the Python encoder
EncodedBlocks ==
    /\ trace = <<"pixels", "dxt5">>
    /\ src.width % 4 = 0
    /\ src.height % 4 = 0
EncodedBlock(bx, by) ==
    SubSeq(tex.data[1], (by * (src.width \div 4) + bx) * 16 + 1, (by * (src.width \div 4) + bx) * 16 + 16)

\* C14: for every 4 x 4 source block the encoder writes a0 = the least and
\* a1 = the greatest source alpha, c0 and c1 = the RGB565 values of the first
\* pixel of least and the first pixel of greatest R+G+B, and for every pixel
\* the lowest index of the alpha entry nearest in absolute difference and of
\* the colour entry nearest in squared distance, the palettes being the
\* decoder's for those endpoints, all packed in the decoder's layout
C14_DXT5Encode ==
    EncodedBlocks
    => /\ err = "none"
       /\ tex.format = DXT5
       /\ Len(tex.data[1]) = 16 * (src.width \div 4) * (src.height \div 4)
       /\ \A bx \in 0..((src.width \div 4) - 1), by \in 0..((src.height \div 4) - 1) :
            LET b == EncodedBlock(bx, by)
                alphas == {SourcePixel(bx, by, k)[4] : k \in 0..15}
                apal == StatedAlphaPalette(b[1], b[2])
                cpal == StatedDXT5Colours(U16At(b, 8), U16At(b, 10))
            IN /\ b[1] = SetMin(alphas)
               /\ b[2] = SetMax(alphas)
               /\ U16At(b, 8) = Quant565(FirstLeastSum(bx, by))
               /\ U16At(b, 10) = Quant565(FirstGreatestSum(bx, by))
               /\ \A k \in 0..15 :
                    /\ IndexAt(b, 2, 3, k) = LowestNearest(AlphaDistances(SourcePixel(bx, by, k)[4], apal))
                    /\ IndexAt(b, 12, 2, k) = LowestNearest(ColourDistances(SourcePixel(bx, by, k), cpal))

\* a block of two colours of equal R+G+B and two alphas has been encoded,
\* with a second block after it
C14_Witness ==
    /\ EncodedBlocks
    /\ err = "none"
    /\ src.width = 8
    /\ src.height = 4
    /\ Cardinality({SourcePixel(0, 0, k) : k \in 0..15}) = 2
    /\ Cardinality({Sum3(SourcePixel(0, 0, k)) : k \in 0..15}) = 1
    /\ EncodedBlock(0, 0)[1] < EncodedBlock(0, 0)[2]
    /\ U16At(EncodedBlock(0, 0), 8) = U16At(EncodedBlock(0, 0), 10)

\* the sixteen pixels the encoder is to see for the tile (bx, by) of a
\* buffer of any size: the source pixel inside width x height, (0, 0, 0, 0)
\* outside
PaddedBlock(bx, by) ==
    [n \in 1..16 |->
        LET x == bx * 4 + ((n - 1) % 4)
            y == by * 4 + ((n - 1) \div 4)
        IN IF x < src.width /\ y < src.height
           THEN [c \in 1..4 |-> Channel(src.pixels, src.width, x, y, c)]
           ELSE <<0, 0, 0, 0>>]
FirstLeastOf(blk) ==
    blk[CHOOSE n \in 1..16 : /\ \A j \in 1..16 : Sum3(blk[n]) <= Sum3(blk[j])
                             /\ \A j \in 1..(n - 1) : Sum3(blk[j]) > Sum3(blk[n])]
FirstGreatestOf(blk) ==
    blk[CHOOSE n \in 1..16 : /\ \A j \in 1..16 : Sum3(blk[n]) >= Sum3(blk[j])
                             /\ \A j \in 1..(n - 1) : Sum3(blk[j]) < Sum3(blk[n])]
\* the 16 bytes b are the encoding of the sixteen pixels blk
EncodingOf(b, blk) ==
    /\ Len(b) = 16
    /\ b[1] = SetMin({blk[n][4] : n \in 1..16})
    /\ b[2] = SetMax({blk[n][4] : n \in 1..16})
    /\ U16At(b, 8) = Quant565(FirstLeastOf(blk))
    /\ U16At(b, 10) = Quant565(FirstGreatestOf(blk))
    /\ \A k \in 0..15 :
         /\ IndexAt(b, 2, 3, k) =
              LowestNearest(AlphaDistances(blk[k + 1][4], StatedAlphaPalette(b[1], b[2])))
         /\ IndexAt(b, 12, 2, k) =
              LowestNearest(ColourDistances(blk[k + 1], StatedDXT5Colours(U16At(b, 8), U16At(b, 10))))
EdgeSize(w, h) == w >= 1 /\ h >= 1 /\ (w % 4 # 0 \/ h % 4 # 0)
TilesAcross == (src.width + 3) \div 4
TilesDown == (src.height + 3) \div 4

\* C15 (decoding): for a width or height that is not a multiple of 4 the
\* decoded buffer has width * height * 4 bytes and every pixel has the value
\* its own block gives it: what a block holds for positions outside the
\* image is written nowhere.
\* C15 (encoding): for such a size every tile is encoded as 16 bytes from
\* sixteen pixels, the positions outside the image taken as (0, 0, 0, 0)
C15_EdgeBlocks ==
    /\ (DecodedBlocks(DXT1, 8) /\ EdgeSize(tex.width, tex.height))
       => /\ err = "none"
          /\ Len(pixels) = tex.width * tex.height * 4
          /\ \A x \in 0..(tex.width - 1), y \in 0..(tex.height - 1) :
               DecodedPixel(x, y) =
                 StatedDXT1Palette(U16At(BlockAt(8, x, y), 0), U16At(BlockAt(8, x, y), 2))
                                  [IndexAt(BlockAt(8, x, y), 4, 2, InBlock(x, y)) + 1]
    /\ (DecodedBlocks(DXT5, 16) /\ EdgeSize(tex.width, tex.height))
       => /\ err = "none"
          /\ Len(pixels) = tex.width * tex.height * 4
          /\ \A x \in 0..(tex.width - 1), y \in 0..(tex.height - 1) :
               DecodedPixel(x, y) =
                 StatedDXT5Colours(U16At(BlockAt(16, x, y), 8), U16At(BlockAt(16, x, y), 10))
                          [IndexAt(BlockAt(16, x, y), 12, 2, InBlock(x, y)) + 1]
                 \o << StatedAlphaPalette(BlockAt(16, x, y)[1], BlockAt(16, x, y)[2])
                          [IndexAt(BlockAt(16, x, y), 2, 3, InBlock(x, y)) + 1] >>
    /\ (trace = <<"pixels", "dxt5">> /\ EdgeSize(src.width, src.height))
       => /\ err = "none"
          /\ Len(tex.data[1]) = 16 * TilesAcross * TilesDown
          /\ \A bx \in 0..(TilesAcross - 1), by \in 0..(TilesDown - 1) :
               EncodingOf(SubSeq(tex.data[1], (by * TilesAcross + bx) * 16 + 1,
                                              (by * TilesAcross + bx) * 16 + 16),
                          PaddedBlock(bx, by))

\* a 5 x 3 buffer of pixels that are not zero was encoded as two blocks,
\* the second of one column of the image and three columns of padding
C15_Witness ==
    /\ trace = <<"pixels", "dxt5">>
    /\ err = "none"
    /\ src.width = 5
    /\ src.height = 3
    /\ Len(tex.data[1]) = 32
    /\ \A n \in 1..Len(src.pixels) : src.pixels[n] > 0
    /\ tex.data[1][17] = 0
    /\ tex.data[1][18] > 0

(***************************************************************************)
(* The header written, and what a load makes of short data.                *)
(***************************************************************************)
\* C16: for an image with width and height in 0..65535, a format in 0..255
\* and at least one level, TEX.write succeeds and the file begins with
\* 54 45 58 00, the width and the height as little-endian u16, 1, the format
\* code, 0, and 1 or 0 for hasMipmaps, whatever the reserved bytes and the
\* hasMipmaps byte were in the file the image was read from
C16_HeaderBytes ==
    (/\ Last(trace) = "write"
     /\ orig.width \in 0..65535
     /\ orig.height \in 0..65535
     /\ orig.format \in 0..255
     /\ orig.data # NoData
     /\ orig.data # <<>>)
    => /\ err = "none"
       /\ Len(disk) >= 12
       /\ SubSeq(disk, 1, 12) =
            <<84, 69, 88, 0,
              orig.width % 256, orig.width \div 256, orig.height % 256, orig.height \div 256,
              1, orig.format, 0, IF orig.mipmaps THEN 1 ELSE 0>>

\* an image read by the GIMP 2 plug-in from a file with reserved bytes 0 and
\* 7 has been written with reserved bytes 1 and 0
C16_Witness ==
    /\ trace = <<"put", "read", "write">>
    /\ err = "none"
    /\ orig.unknown1 = 0
    /\ orig.unknown2 = 7
    /\ orig.mipmaps
    /\ orig.width = 256
    /\ SubSeq(disk, 5, 12) = <<0, 1, 2, 0, 1, orig.format, 0, 1>>

\* C17: when the level that is decoded has fewer bytes than the width and
\* height of the image require, decoding fails with an error: no buffer is
\* returned in which the pixels without data are left as zeros
C17_NoZeroImage ==
    (/\ trace = <<"put", "read", "decompress">>
     /\ tex.format \in {DXT1, DXT5, BGRA8}
     /\ tex.width >= 1
     /\ tex.height >= 1
     /\ Len(tex.data[Len(tex.data)]) < LevelSize(tex.width, tex.height, tex.format, 0))
    => err # "none"

(***************************************************************************)
(* The invariants of an image that TEX.read returned.                      *)
(***************************************************************************)
\* C18: in every image a successful read returns, with a format of DXT1,
\* DXT5 or BGRA8 and a width and height of 1 or more, every level has the
\* block-arithmetic size of its resolution: the sizes of the chain on the
\* mip-chain path, the size of the full resolution on the single-level path
C18_LevelLengths ==
    (/\ Last(trace) = "read"
     /\ err = "none"
     /\ tex.format \in {DXT1, DXT5, BGRA8}
     /\ tex.width >= 1
     /\ tex.height >= 1)
    => IF tex.mipmaps
       THEN [k \in 1..Len(tex.data) |-> Len(tex.data[k])] = ChainSizes(tex.width, tex.height, tex.format)
       ELSE /\ Len(tex.data) = 1
            /\ Len(tex.data[1]) = LevelSize(tex.width, tex.height, tex.format, 0)

\* C19: every image a successful read returns with hasMipmaps true has a
\* format of DXT1, DXT5 or BGRA8 and floor(log2(max(width, height))) + 1
\* levels, none longer than the next, and every image returned with
\* hasMipmaps false has one level
C19_MipmapInvariant ==
    (/\ Last(trace) = "read"
     /\ err = "none"
     /\ tex.width >= 1
     /\ tex.height >= 1)
    => IF tex.mipmaps
       THEN /\ tex.format \in {DXT1, DXT5, BGRA8}
            /\ Len(tex.data) = MipCount(tex.width, tex.height)
            /\ \A k \in 1..(Len(tex.data) - 1) : Len(tex.data[k]) <= Len(tex.data[k + 1])
       ELSE Len(tex.data) = 1

\* C20: when TEX.read fails, the width, height, format, mipmaps flag and
\* data of the object it was called on are what they were before the call
\* (those of a new TEX object), and when TEX.write fails no byte is in the
\* destination
C20_NoPartialEffects ==
    /\ (Last(trace) = "read" /\ err # "none")
       => /\ tex.width = TEX_init.width
          /\ tex.height = TEX_init.height
          /\ tex.format = TEX_init.format
          /\ tex.mipmaps = TEX_init.mipmaps
          /\ tex.data = TEX_init.data
    /\ (trace = <<"assemble", "write">> /\ err # "none")
       => disk = <<>>

\* C21: a read of a BytesStream that asks for more bytes than are left
\* fails (it raises) and returns no value, whichever of read, read_u8,
\* read_u16, read_u32 and read_b it is
C21_TruncatedPrimitive ==
    (bs.op # "none" /\ bs.want > bs.had) => (bs.err # "none" /\ bs.value = <<>>)

\* the outcome the last call of the accelerator would have had in a process
\* that had made no call before it: _dxt_dll None and the flag False
FreshOutcome == fast_outcome(accel.call, accel.arg, "None", FALSE, accel.file, accel.callok)

\* C22: every call of a fast_* function and of decompress_tex_to_rgba
\* returns what it would return, and takes the decoder it would take, had
\* no call been made before it: neither depends on the globals earlier
\* calls wrote
C22_Stateless ==
    accel.call \in {"fast_compress_dxt5", "fast_decompress", "decompress_tex_to_rgba"}
    => /\ accel.result = FreshOutcome.result
       /\ accel.into_dll = FreshOutcome.into_dll
       /\ accel.path = FreshOutcome.path

FastCalls == {"fast_compress_dxt5", "fast_decompress", "decompress_tex_to_rgba"}

\* C28: after any calls of init_fast_compression and of the fast_*
\* functions the flag _has_fast_compression is true only with a library in
\* _dxt_dll, a flag that was true before a call is true after it, a call
\* that found the flag false tried to initialise (a library with all its
\* functions at dll_path sets the flag), and a call that leaves the flag
\* false has not gone into _dxt_dll and has returned None, so that
\* decompress_tex_to_rgba made its pixels with the Python decoder
C28_AcceleratorState ==
    /\ has_fast_compression => dxt_dll = "loaded"
    /\ accel.flag_before => has_fast_compression
    /\ (accel.call \in FastCalls /\ ~accel.flag_before /\ accel.file = "complete")
       => has_fast_compression
    /\ (accel.call \in FastCalls /\ ~has_fast_compression)
       => /\ ~accel.into_dll
          /\ accel.call # "decompress_tex_to_rgba" => accel.result = <<>>
          /\ accel.call = "decompress_tex_to_rgba" => (accel.path = "python" /\ accel.result # <<>>)
\* a library that lacks a function is loaded and the flag stays false: the
\* second call decodes in Python
C28_Witness ==
    /\ accel.calls = 2
    /\ accel.call = "decompress_tex_to_rgba"
    /\ accel.file = "incomplete"
    /\ dxt_dll = "loaded"
    /\ ~has_fast_compression
    /\ accel.path = "python"
    /\ Len(accel.result) = 64

\* C23: a save or export of an image whose width or height is not a
\* multiple of 4 calls no DXT5 encoder, writes no TEX file and gives the
\* host an error, in tex_save as in export_tex
C23_AlignmentChecked ==
    (/\ host.call \in {"export_tex", "tex_save"}
     /\ (host.arg.width % 4 # 0 \/ host.arg.height % 4 # 0))
    => /\ host.o.encoder = <<>>
       /\ ~host.o.wrote
       /\ host.o.status \in {"CALLING_ERROR", "EXECUTION_ERROR", "raised"}

\* the file export_tex wrote: the format byte of its header and the bytes
\* after the header
WrittenFormat == host.o.out[10]
WrittenPayload == SubSeq(host.o.out, 13, Len(host.o.out))
\* the source buffer with the red and blue bytes of every pixel exchanged
SwappedSource ==
    [q \in 1..Len(host.arg.pixels) |->
        host.arg.pixels[CASE q % 4 = 1 -> q + 2 [] q % 4 = 3 -> q - 2 [] OTHER -> q]]

\* C25: a file export_tex wrote says DXT5 in its header exactly when its
\* payload is the compressor's output (one 16-byte block per 4x4 tile), and
\* BGRA8 exactly when its payload is the source with red and blue
\* exchanged, whatever the two calls of fast_compress_dxt5 returned
C25_FormatMatchesPayload ==
    (host.call = "export_tex" /\ host.o.wrote)
    => /\ WrittenFormat \in {DXT5, BGRA8}
       /\ WrittenFormat = DXT5
          <=> WrittenPayload = dll_compress(host.arg.pixels, host.arg.width, host.arg.height)
       /\ WrittenFormat = BGRA8 <=> WrittenPayload = SwappedSource

C24_ActivationDelay ==
    (closer.op = "poll" /\ closer.closed # {})
    => (closer.last # 0 /\ closer.now - closer.last >= 4)

\* the time of a poll is from 0.5 s to 2.5 s after the latest signal seen
InWindow == closer.last # 0 /\ closer.now - closer.last \in 1..5
EmittedBlocks == Len(tex.data[1]) \div 16
EmittedBlock(n) == SubSeq(tex.data[1], 16 * n + 1, 16 * n + 16)
\* the 3-bit alpha index of pixel i (0..15) of the 16-byte block b
EncodedAlphaIndex(b, i) ==
    IF i < 8 THEN ((b[3] + 256 * b[4] + 65536 * b[5]) \div Pow2(3 * i)) % 8
    ELSE ((b[6] + 256 * b[7] + 65536 * b[8]) \div Pow2(3 * (i - 8))) % 8
\* the alpha a decoder gives to palette index k of a block in the six-value
\* mode (endpoints a0 <= a1)
SixValueAlpha(a0, a1, k) ==
    CASE k = 0 -> a0 [] k = 1 -> a1 [] k = 6 -> 0 [] k = 7 -> 255
      [] OTHER -> ((6 - k) * a0 + (k - 1) * a1) \div 5
\* the alphas of the 4x4 tile n of the source, 0 for the positions beyond
\* the right and bottom edges (the padding of the encoder)
TileAlphas(n) ==
    LET bw == (src.width + 3) \div 4 IN
    {LET x == (n % bw) * 4 + (i % 4)
         y == (n \div bw) * 4 + (i \div 4)
     IN IF x < src.width /\ y < src.height THEN src.pixels[(y * src.width + x) * 4 + 4] ELSE 0 :
       i \in 0..15}

\* C29: every block the Python DXT5 encoder emits has alpha endpoints
\* a0 <= a1, no pixel of it has alpha index 6 or 7, and the alpha a
\* decoder gives each of its pixels lies between the least and the
\* greatest alpha of the tile it was made from
C29_AlphaMode ==
    (Last(trace) = "dxt5" /\ err = "none")
    => \A n \in 0..(EmittedBlocks - 1) :
          LET b == EmittedBlock(n) IN
          /\ b[1] <= b[2]
          /\ \A i \in 0..15 :
                /\ EncodedAlphaIndex(b, i) \notin {6, 7}
                /\ \E lo \in TileAlphas(n), hi \in TileAlphas(n) :
                      /\ lo <= SixValueAlpha(b[1], b[2], EncodedAlphaIndex(b, i))
                      /\ SixValueAlpha(b[1], b[2], EncodedAlphaIndex(b, i)) <= hi
\* a block with distinct endpoints, a0 and a1 the least and greatest alpha
\* of its tile, and a pixel on an interpolated palette entry
C29_Witness ==
    /\ Last(trace) = "dxt5"
    /\ err = "none"
    /\ \E n \in 0..(EmittedBlocks - 1) :
          LET b == EmittedBlock(n) IN
          /\ b[1] < b[2]
          /\ b[1] \in TileAlphas(n) /\ b[2] \in TileAlphas(n)
          /\ \E i \in 0..15 : EncodedAlphaIndex(b, i) \in 2..5

\* C30: decompress_tex_to_rgba of a texture of format DXT1, DXT5 or BGRA8
\* with width and height of 1 or more returns width * height * 4 bytes,
\* whatever the length of the payload
C30_DecodeSize ==
    (/\ Last(trace) = "decompress"
     /\ tex.format \in {DXT1, DXT5, BGRA8}
     /\ tex.width >= 1
     /\ tex.height >= 1
     /\ tex.data # NoData
     /\ tex.data # <<>>)
    => /\ err = "none"
       /\ Len(pixels) = tex.width * tex.height * 4

====
